---- MODULE Spec2Model ----
(***************************************************************************)
(* FinBossAPI: refresh-token rotation (utils/jwt, utils/tokenStorage,      *)
(* controllers/authController) and budget uniqueness                       *)
(* (controllers/budgetController), as state machines over the persistent   *)
(* store.                                                                  *)
(***************************************************************************)
EXTENDS Integers, Sequences, FiniteSets, TLC

(***************************************************************************)
(* Bounds of the model                                                     *)
(***************************************************************************)
MaxUsers == 2
MaxTokens == 2
MaxCapTokens == 7
MaxTime == 1
MaxExpired == 1
MaxBudgets == 2
MaxRequests == 2
MaxConcTokens == 3
MaxTransactions == 3
MaxCategories == 2
MaxAcctDocs == 3
MaxLedgerDocs == 3
MaxInstances == 2
MaxSeedRuns == 2
MaxDuplicates == 1

(***************************************************************************)
(* Program constants                                                       *)
(***************************************************************************)
MAX_SESSIONS == 5
MinPasswordLength == 8
MaxNameLength == 50

UserIds == 1..MaxUsers
Secrets == {"s1", "s2"}
Periods == {"monthly", "yearly"}

(* Request inputs. LongName has 51 characters. *)
LongName == "Abcdefghijklmnopqrstuvwxyzabcdefghijklmnopqrstuvwxyz"
NameInputs == {"", "  ", "Test", LongName}
PasswordInputs == {"", "short", "password123", "newpassword456"}
RegisterPasswords == {"", "short", "password123"}
LastNameInputs == {"  ", "User"}
NamePairs == {<<f, "User">> : f \in NameInputs} \cup {<<"Test", l>> : l \in LastNameInputs}
PasswordChanges ==
    {<<"", "newpassword456">>, <<"password123", "">>, <<"password123", "short">>,
     <<"password123", "newpassword456">>, <<"short", "newpassword456">>,
     <<"newpassword456", "password123">>, <<"newpassword456", "newpassword456">>}
EmailInputs == {"", "a@x.com", "A@x.com", "b@x.com", "not-an-email"}
CategoryInputs == {"", "food", "rent"}
LimitInputs == {0, -5, 100, 200}
PeriodInputs == {"", "monthly", "yearly", "weekly"}

VARIABLES
    env,        \* process.env: JWT_SECRET, JWT_REFRESH_SECRET
    users,      \* User collection: _id -> document, or NoUser
    nextUid,    \* number of User documents ever created + 1
    issued,     \* token pairs signed so far: serial -> [userId, email]
    expA,       \* access tokens with iat <= expA are past their 7d expiry
    expR,       \* refresh tokens with iat <= expR are past their 30d expiry
    now,        \* the clock read by new Date()
    budgets,    \* Budget collection: set of documents
    nextBid,    \* number of Budget documents ever created + 1
    transactions, \* Transaction collection: set of documents
    nextTid,    \* number of Transaction documents ever created + 1
    categories, \* Category collection: set of documents
    nextCid,    \* number of Category documents ever created + 1
    seeding,    \* startup instances inside seedCategories, and the Category index
    inflight,   \* requests suspended at an await (concurrent execution)
    mark        \* history: one past request, chosen freely when it was handled

vars == <<env, users, nextUid, issued, expA, expR, now, budgets, nextBid,
          transactions, nextTid, categories, nextCid, seeding, inflight, mark>>

authVars == <<users, nextUid, issued>>
timeVars == <<expA, expR>>
budgetVars == <<budgets, nextBid>>
ledgerVars == <<transactions, nextTid>>
categoryVars == <<categories, nextCid, seeding>>

NoUser == [email |-> "", password |-> <<>>, firstName |-> "", lastName |-> "",
           refreshTokens |-> <<>>, version |-> 0, exists |-> FALSE]
NoToken == [type |-> "none", userId |-> 0, email |-> "", jti |-> 0, iat |-> 0,
            expiresIn |-> "", sig |-> ""]
(* A token that was not signed by this server. *)
ForgedToken == [type |-> "refresh", userId |-> 1, email |-> "a@x.com", jti |-> 0,
                iat |-> 0, expiresIn |-> "30d", sig |-> "forged"]

(* A request in flight: where it stands, what it read and what it answered *)
Requests == 1..MaxRequests
Idle == [pc |-> "idle", token |-> NoToken, email |-> "", rt |-> NoToken,
         doc |-> <<>>, docVersion |-> 0, status |-> 0]

(***************************************************************************)
(* The history variable remembers one request that was handled:            *)
(*   rotation        refresh of jti a answered 200 and issued jti b;       *)
(*                   reused is set when jti a is presented again and the   *)
(*                   refresh revokes all sessions                          *)
(*   purge           refresh of jti a revoked all sessions                 *)
(*   changePassword  user a changed the password when b tokens were issued *)
(*   logout          caller a logged out with the refresh token of jti b   *)
(*   evict           storing jti b for user a evicted an entry             *)
(* Which request is remembered is a free choice (the watch input of the    *)
(* actions), so every request of every run is the remembered one in some   *)
(* behaviour.                                                              *)
(***************************************************************************)
Instances == 1..MaxInstances
(* no instance has started, and the index of the Category schema does not  *)
(* exist yet                                                               *)
NoSeeding ==
    [index |-> "none", run |-> [k \in Instances |-> [pc |-> "idle", op |-> 1, runs |-> 0]]]
NoMark == [kind |-> "none", a |-> 0, b |-> 0, reused |-> FALSE]
Mark(kind, a, b) == [kind |-> kind, a |-> a, b |-> b, reused |-> FALSE]

(***************************************************************************)
(* Strings: validator.isEmail, String.toLowerCase, String.trim             *)
(***************************************************************************)
isEmail(e) == e \in {"a@x.com", "A@x.com", "b@x.com", "c@x.com"}

toLowerCase(e) ==
    CASE e = "A@x.com" -> "a@x.com"
      [] e = "Pets" -> "pets"
      [] e = " Pets " -> " pets "
      [] e = "Food & Dining" -> "food & dining"
      [] e = "Transportation" -> "transportation"
      [] e = "Entertainment" -> "entertainment"
      [] e = "Shopping" -> "shopping"
      [] e = "Utilities" -> "utilities"
      [] e = "Healthcare" -> "healthcare"
      [] e = "Education" -> "education"
      [] e = "Travel" -> "travel"
      [] e = "Subscriptions" -> "subscriptions"
      [] e = "Salary" -> "salary"
      [] e = "Freelance" -> "freelance"
      [] e = "Investment Returns" -> "investment returns"
      [] e = "Other" -> "other"
      [] OTHER -> e

trim(s) ==
    CASE s = "  " -> ""
      [] s = " pets " -> "pets"
      [] OTHER -> s

(***************************************************************************)
(* bcryptjs.hash / comparePassword                                         *)
(***************************************************************************)
bcryptHash(password) == <<"bcrypt", password>>

comparePassword(user, candidatePassword) == user.password = bcryptHash(candidatePassword)

(***************************************************************************)
(* utils/hash: sha256                                                      *)
(***************************************************************************)
sha256(data) == <<"sha256", data.type, data.userId, data.jti, data.iat, data.sig>>

(***************************************************************************)
(* utils/jwt                                                               *)
(***************************************************************************)
JWT_EXPIRY == "7d"
REFRESH_TOKEN_EXPIRY == "30d"

generateAccessToken(userId, email, iat) ==
    [type |-> "access", userId |-> userId, email |-> email, jti |-> 0,
     iat |-> iat, expiresIn |-> JWT_EXPIRY, sig |-> env.JWT_SECRET]

generateRefreshToken(userId, email, iat, jti) ==
    [type |-> "refresh", userId |-> userId, email |-> email, jti |-> jti,
     iat |-> iat, expiresIn |-> REFRESH_TOKEN_EXPIRY, sig |-> env.JWT_REFRESH_SECRET]

(* jwt.verify: signature made with the given secret and exp not passed *)
jwtVerify(token, secret) ==
    /\ token.sig = secret
    /\ token.iat > (IF token.expiresIn = JWT_EXPIRY THEN expA ELSE expR)

(* TRUE when the function returns the payload, FALSE when it throws *)
verifyAccessTokenNoType(token) == jwtVerify(token, env.JWT_SECRET)

verifyAccessToken(token) ==
    /\ jwtVerify(token, env.JWT_SECRET)
    /\ token.type = "access"

verifyRefreshTokenNoType(token) == jwtVerify(token, env.JWT_REFRESH_SECRET)

verifyRefreshToken(token) ==
    /\ jwtVerify(token, env.JWT_REFRESH_SECRET)
    /\ token.type = "refresh"

(* The tokens this server has signed. *)
AccessTokenOf(n) == generateAccessToken(issued[n].userId, issued[n].email, n)
RefreshTokenOf(n) == generateRefreshToken(issued[n].userId, issued[n].email, n, n)
IssuedAccess == {AccessTokenOf(n) : n \in 1..Len(issued)}
IssuedRefresh == {RefreshTokenOf(n) : n \in 1..Len(issued)}

(* What a client can put in a request. *)
BodyTokens == IssuedRefresh \cup IssuedAccess \cup {ForgedToken, NoToken}
BearerTokens == IssuedAccess \cup {ForgedToken, NoToken}

(***************************************************************************)
(* middleware/auth: authenticate. TRUE when next() is called with          *)
(* req.user = payload, FALSE when it answers 401.                          *)
(***************************************************************************)
authenticate(bearer) == bearer # NoToken /\ verifyAccessToken(bearer)

(***************************************************************************)
(* utils/tokenStorage                                                      *)
(***************************************************************************)
RECURSIVE InsertDesc(_, _)
(* position of e in a list sorted by createdAt descending, after its equals *)
InsertDesc(sorted, e) ==
    IF sorted = <<>> THEN <<e>>
    ELSE IF Head(sorted).createdAt >= e.createdAt
         THEN <<Head(sorted)>> \o InsertDesc(Tail(sorted), e)
         ELSE <<e>> \o sorted

RECURSIVE SortDesc(_)
(* Array.prototype.sort((a, b) => b.createdAt - a.createdAt): stable *)
SortDesc(list) ==
    IF list = <<>> THEN <<>>
    ELSE InsertDesc(SortDesc(SubSeq(list, 1, Len(list) - 1)), list[Len(list)])

slice(list, n) == SubSeq(list, 1, IF Len(list) < n THEN Len(list) ELSE n)

(* the array after push and eviction, from the array that was read *)
pushAndEvictKeepOldest(list, tokenHash, date) ==
    LET pushed == Append(list, [tokenHash |-> tokenHash, createdAt |-> date])
    IN IF Len(pushed) > MAX_SESSIONS
       THEN SubSeq(SortDesc(pushed), Len(pushed) - MAX_SESSIONS + 1, Len(pushed))
       ELSE pushed

pushAndEvictNoCap(list, tokenHash, date) ==
    Append(list, [tokenHash |-> tokenHash, createdAt |-> date])

pushAndEvict(list, tokenHash, date) ==
    LET pushed == Append(list, [tokenHash |-> tokenHash, createdAt |-> date])
    IN IF Len(pushed) > MAX_SESSIONS
       THEN slice(SortDesc(pushed), MAX_SESSIONS)
       ELSE pushed

storeRefreshToken(us, userId, rawToken, date) ==
    IF ~us[userId].exists THEN us
    ELSE [us EXCEPT ![userId].refreshTokens = pushAndEvict(@, sha256(rawToken), date),
                    ![userId].version = @ + 1]

verifyStoredRefreshToken(us, userId, rawToken) ==
    /\ us[userId].exists
    /\ \E i \in 1..Len(us[userId].refreshTokens) :
          us[userId].refreshTokens[i].tokenHash = sha256(rawToken)

pull(list, tokenHash) == SelectSeq(list, LAMBDA e : e.tokenHash # tokenHash)

removeRefreshTokenNoop(us, userId, rawToken) == us

removeRefreshTokenClearsList(us, userId, rawToken) ==
    IF ~us[userId].exists THEN us
    ELSE [us EXCEPT ![userId].refreshTokens = <<>>]

removeRefreshToken(us, userId, rawToken) ==
    IF ~us[userId].exists THEN us
    ELSE [us EXCEPT ![userId].refreshTokens = pull(@, sha256(rawToken))]

removeAllRefreshTokensNoop(us, userId) == us

removeAllRefreshTokens(us, userId) ==
    IF ~us[userId].exists THEN us
    ELSE [us EXCEPT ![userId].refreshTokens = <<>>]

(* User.findOne({ email }) *)
findByEmailNone(us, email) == {}

findByEmail(us, email) == {u \in UserIds : us[u].exists /\ us[u].email = email}

Hashes(user) == {user.refreshTokens[i].tokenHash : i \in 1..Len(user.refreshTokens)}

(***************************************************************************)
(* Initial state: empty store, configured secrets                          *)
(***************************************************************************)
Init ==
    /\ env \in {[JWT_SECRET |-> "s1", JWT_REFRESH_SECRET |-> r] : r \in Secrets}
    /\ users = [u \in UserIds |-> NoUser]
    /\ nextUid = 1
    /\ issued = <<>>
    /\ expA = 0
    /\ expR = 0
    /\ now = 0
    /\ budgets = {}
    /\ nextBid = 1
    /\ transactions = {}
    /\ nextTid = 1
    /\ categories = {}
    /\ nextCid = 1
    /\ seeding = NoSeeding
    /\ inflight = [r \in Requests |-> Idle]
    /\ mark = NoMark

(***************************************************************************)
(* A handler is a function of the request and the store: the status it     *)
(* answers, the User collection it leaves, and the refresh token of the    *)
(* pair it issues (NoToken when it issues none).                           *)
(***************************************************************************)
Out(status, us, rt) == [status |-> status, users |-> us, rt |-> rt]

(* the clock has not gone back since the last new Date() *)
ClockValues == now..(IF now < MaxTime THEN now + 1 ELSE now)

(***************************************************************************)
(* authController.register                                                 *)
(***************************************************************************)
register(email, password, firstName, lastName, date) ==
    IF email = "" \/ password = "" \/ firstName = "" \/ lastName = ""
    THEN Out(400, users, NoToken)
    ELSE IF trim(firstName) = "" \/ trim(lastName) = ""
    THEN Out(400, users, NoToken)
    ELSE IF Len(trim(firstName)) > MaxNameLength \/ Len(trim(lastName)) > MaxNameLength
    THEN Out(400, users, NoToken)
    ELSE IF Len(password) < MinPasswordLength
    THEN Out(400, users, NoToken)
    ELSE IF ~isEmail(email)
    THEN Out(400, users, NoToken)
    ELSE IF findByEmail(users, toLowerCase(email)) # {}
    THEN Out(409, users, NoToken)
    ELSE LET id == nextUid
             n == Len(issued) + 1
             user == [email |-> toLowerCase(email),
                      password |-> bcryptHash(password),
                      firstName |-> trim(firstName),
                      lastName |-> trim(lastName),
                      refreshTokens |-> <<>>, version |-> 0, exists |-> TRUE]
             saved == [users EXCEPT ![id] = user]
             refreshToken == generateRefreshToken(id, user.email, n, n)
         IN Out(201, storeRefreshToken(saved, id, refreshToken, date), refreshToken)

(***************************************************************************)
(* authController.login                                                    *)
(***************************************************************************)
login(email, password, date) ==
    IF email = "" \/ password = ""
    THEN Out(400, users, NoToken)
    ELSE IF findByEmail(users, toLowerCase(email)) = {}
    THEN Out(401, users, NoToken)
    ELSE LET id == CHOOSE u \in findByEmail(users, toLowerCase(email)) : TRUE
             user == users[id]
             n == Len(issued) + 1
             refreshToken == generateRefreshToken(id, user.email, n, n)
         IN IF ~comparePassword(user, password)
            THEN Out(401, users, NoToken)
            ELSE Out(200, storeRefreshToken(users, id, refreshToken, date), refreshToken)

(***************************************************************************)
(* authController.refreshToken, run to completion                          *)
(***************************************************************************)
refreshToken(token, date) ==
    IF token = NoToken
    THEN Out(400, users, NoToken)
    ELSE IF ~verifyRefreshToken(token)
    THEN Out(401, users, NoToken)
    ELSE IF ~users[token.userId].exists
    THEN Out(401, users, NoToken)
    ELSE LET id == token.userId
             user == users[id]
             n == Len(issued) + 1
             removed == removeRefreshToken(users, id, token)
             newRefreshToken == generateRefreshToken(id, user.email, n, n)
         IN IF ~verifyStoredRefreshToken(users, id, token)
            THEN Out(401, removeAllRefreshTokens(users, id), NoToken)
            ELSE Out(200, storeRefreshToken(removed, id, newRefreshToken, date),
                     newRefreshToken)

(* the refresh request ran into the theft branch *)
RevokesAll(token) ==
    /\ token # NoToken
    /\ verifyRefreshToken(token)
    /\ users[token.userId].exists
    /\ ~verifyStoredRefreshToken(users, token.userId, token)

(***************************************************************************)
(* authController.logout, behind middleware authenticate                   *)
(***************************************************************************)
logout(bearer, token) ==
    IF ~authenticate(bearer)
    THEN Out(401, users, NoToken)
    ELSE IF token = NoToken
    THEN Out(400, users, NoToken)
    ELSE Out(200, removeRefreshToken(users, bearer.userId, token), NoToken)

(***************************************************************************)
(* authController.changePassword, behind middleware authenticate           *)
(***************************************************************************)
changePassword(bearer, currentPassword, newPassword) ==
    IF ~authenticate(bearer)
    THEN Out(401, users, NoToken)
    ELSE IF currentPassword = "" \/ newPassword = ""
    THEN Out(400, users, NoToken)
    ELSE IF Len(newPassword) < MinPasswordLength
    THEN Out(400, users, NoToken)
    ELSE IF ~users[bearer.userId].exists
    THEN Out(404, users, NoToken)
    ELSE IF ~comparePassword(users[bearer.userId], currentPassword)
    THEN Out(401, users, NoToken)
    ELSE LET id == bearer.userId
             saved == [users EXCEPT ![id].password = bcryptHash(newPassword)]
         IN Out(200, removeAllRefreshTokens(saved, id), NoToken)

(***************************************************************************)
(* authController.deleteAccount, behind middleware authenticate            *)
(***************************************************************************)
deleteAccount(bearer) ==
    IF ~authenticate(bearer)
    THEN Out(401, users, NoToken)
    ELSE IF ~users[bearer.userId].exists
    THEN Out(404, users, NoToken)
    ELSE Out(200, [removeAllRefreshTokens(users, bearer.userId)
                      EXCEPT ![bearer.userId] = NoUser], NoToken)

(***************************************************************************)
(* authController.updateProfile; an absent field is ""                     *)
(***************************************************************************)
updateProfile(bearer, firstName, lastName, email) ==
    IF ~authenticate(bearer) THEN Out(401, users, NoToken)
    ELSE IF ~users[bearer.userId].exists THEN Out(404, users, NoToken)
    ELSE LET user == users[bearer.userId]
             changesEmail == email # "" /\ email # user.email
         IN IF changesEmail /\ ~isEmail(email) THEN Out(400, users, NoToken)
            ELSE IF changesEmail /\ findByEmail(users, toLowerCase(email)) # {}
            THEN Out(409, users, NoToken)
            ELSE IF firstName # "" /\ (trim(firstName) = ""
                                        \/ Len(trim(firstName)) > MaxNameLength)
            THEN Out(400, users, NoToken)
            ELSE IF lastName # "" /\ (trim(lastName) = ""
                                       \/ Len(trim(lastName)) > MaxNameLength)
            THEN Out(400, users, NoToken)
            ELSE Out(200,
                     [users EXCEPT ![bearer.userId] =
                         [user EXCEPT
                            !.email = IF changesEmail THEN toLowerCase(email) ELSE @,
                            !.firstName = IF firstName # "" THEN trim(firstName) ELSE @,
                            !.lastName = IF lastName # "" THEN trim(lastName) ELSE @]],
                     NoToken)

(***************************************************************************)
(* Requests handled one at a time                                          *)
(***************************************************************************)
Issue(rt) ==
    issued' = IF rt = NoToken THEN issued
              ELSE Append(issued, [userId |-> rt.userId, email |-> rt.email])

(* storing rt for user id dropped an entry of the list *)
Evicts(before, after, id) ==
    Len(after[id].refreshTokens) <= Len(before[id].refreshTokens)

Remember(watch, m) == mark' = IF watch /\ mark = NoMark THEN m ELSE mark

Register(email, password, firstName, lastName, date, cap) ==
    /\ nextUid <= MaxUsers
    /\ LET out == register(email, password, firstName, lastName, date)
       IN /\ out.status = 201 => Len(issued) < cap
          /\ users' = out.users
          /\ Issue(out.rt)
          /\ nextUid' = IF out.status = 201 THEN nextUid + 1 ELSE nextUid
          /\ now' = IF out.status = 201 THEN date ELSE now
          /\ UNCHANGED <<env, timeVars, budgetVars, ledgerVars, categoryVars, inflight, mark>>

Login(email, password, date, watch, cap) ==
    LET out == login(email, password, date)
    IN /\ out.status = 200 => Len(issued) < cap
       /\ users' = out.users
       /\ Issue(out.rt)
       /\ now' = IF out.status = 200 THEN date ELSE now
       /\ IF out.status = 200 /\ Evicts(users, out.users, out.rt.userId)
          THEN Remember(watch, Mark("evict", out.rt.userId, out.rt.jti))
          ELSE UNCHANGED mark
       /\ UNCHANGED <<env, timeVars, budgetVars, ledgerVars, categoryVars, inflight, nextUid>>

Refresh(token, date, watch, cap) ==
    LET out == refreshToken(token, date)
    IN /\ out.status = 200 => Len(issued) < cap
       /\ users' = out.users
       /\ Issue(out.rt)
       /\ now' = IF out.status = 200 THEN date ELSE now
       /\ IF out.status = 200
          THEN Remember(watch, Mark("rotation", token.jti, out.rt.jti))
          ELSE IF RevokesAll(token)
          THEN IF mark.kind = "rotation" /\ mark.a = token.jti
               THEN mark' = [mark EXCEPT !.reused = TRUE]
               ELSE Remember(watch, Mark("purge", token.jti, 0))
          ELSE UNCHANGED mark
       /\ UNCHANGED <<env, timeVars, budgetVars, ledgerVars, categoryVars, inflight, nextUid>>

Logout(bearer, token, watch) ==
    LET out == logout(bearer, token)
    IN /\ users' = out.users
       /\ IF out.status = 200 /\ token \in IssuedRefresh
          THEN Remember(watch, Mark("logout", bearer.userId, token.jti))
          ELSE UNCHANGED mark
       /\ UNCHANGED <<env, timeVars, budgetVars, ledgerVars, categoryVars, inflight, nextUid, issued, now>>

ChangePassword(bearer, currentPassword, newPassword, watch) ==
    LET out == changePassword(bearer, currentPassword, newPassword)
    IN /\ users' = out.users
       /\ IF out.status = 200
          THEN Remember(watch, Mark("changePassword", bearer.userId, Len(issued)))
          ELSE UNCHANGED mark
       /\ UNCHANGED <<env, timeVars, budgetVars, ledgerVars, categoryVars, inflight, nextUid, issued, now>>

deleteManyKeepsAll(docs, userId) == docs

(* Model.deleteMany({ userId }) *)
deleteMany(docs, userId) == {doc \in docs : doc.userId # userId}

(* deleteAccount with the collections it cascades to *)
deleteAccountCascade(bearer) ==
    LET out == deleteAccount(bearer)
    IN IF out.status # 200
       THEN [status |-> out.status, users |-> users, transactions |-> transactions,
             budgets |-> budgets, categories |-> categories]
       ELSE [status |-> 200, users |-> out.users,
             transactions |-> deleteMany(transactions, bearer.userId),
             budgets |-> deleteMany(budgets, bearer.userId),
             categories |-> deleteMany(categories, bearer.userId)]

DeleteAccount(bearer, watch) ==
    LET out == deleteAccountCascade(bearer)
    IN /\ users' = out.users
       /\ transactions' = out.transactions
       /\ budgets' = out.budgets
       /\ categories' = out.categories
       /\ Remember(watch /\ out.status = 200, Mark("deleteAccount", bearer.userId, Len(issued)))
       /\ UNCHANGED <<env, timeVars, nextBid, nextTid, nextCid, seeding, inflight, nextUid,
                      issued, now>>

UpdateProfile(bearer, firstName, lastName, email) ==
    /\ users' = updateProfile(bearer, firstName, lastName, email).users
    /\ UNCHANGED <<env, nextUid, issued, timeVars, now, budgetVars, ledgerVars, categoryVars,
                   inflight, mark>>

(***************************************************************************)
(* Time passing: a token pair is issued with one iat; the access token     *)
(* (7d) expires before the refresh token (30d), and tokens expire in the   *)
(* order they were issued.                                                 *)
(***************************************************************************)
ExpireAccess ==
    /\ expA < Len(issued)
    /\ expA < MaxExpired
    /\ expA' = expA + 1
    /\ UNCHANGED <<env, authVars, expR, now, budgetVars, ledgerVars, categoryVars, inflight, mark>>

ExpireRefresh ==
    /\ expR < expA
    /\ expR' = expR + 1
    /\ UNCHANGED <<env, authVars, expA, now, budgetVars, ledgerVars, categoryVars, inflight, mark>>

(***************************************************************************)
(* Spec: the auth endpoints, one request at a time, two accounts           *)
(***************************************************************************)
InitAuth == Init /\ env.JWT_REFRESH_SECRET = "s2"

DoRegister ==
    \E email \in EmailInputs, password \in RegisterPasswords, names \in NamePairs :
        Register(email, password, names[1], names[2], now, MaxTokens)

DoLogin ==
    \E email \in EmailInputs, password \in PasswordInputs :
        Login(email, password, now, FALSE, MaxTokens)

DoRefresh ==
    \E token \in BodyTokens, watch \in BOOLEAN : Refresh(token, now, watch, MaxTokens)

DoLogout ==
    \E bearer \in BearerTokens, token \in BodyTokens, watch \in BOOLEAN :
        Logout(bearer, token, watch)

DoChangePassword ==
    \E bearer \in BearerTokens, passwords \in PasswordChanges, watch \in BOOLEAN :
        ChangePassword(bearer, passwords[1], passwords[2], watch)

DoDeleteAccount == \E bearer \in BearerTokens : DeleteAccount(bearer, FALSE)

Next ==
    \/ DoRegister
    \/ DoLogin
    \/ DoRefresh
    \/ DoLogout
    \/ DoChangePassword
    \/ DoDeleteAccount
    \/ ExpireAccess
    \/ ExpireRefresh

Spec == InitAuth /\ [][Next]_vars

(***************************************************************************)
(* SpecJwt: token issue and verification under every configuration of the  *)
(* two secrets, equal secrets included                                     *)
(***************************************************************************)
JwtRegister ==
    \E email \in EmailInputs, password \in RegisterPasswords :
        Register(email, password, "Test", "User", now, MaxTokens)

JwtLogin ==
    \E email \in EmailInputs, password \in PasswordInputs :
        Login(email, password, now, FALSE, MaxTokens)

JwtRefresh == \E token \in BodyTokens : Refresh(token, now, FALSE, MaxTokens)

JwtLogout ==
    \E bearer \in BearerTokens \cup IssuedRefresh, token \in BodyTokens :
        Logout(bearer, token, FALSE)

NextJwt ==
    \/ JwtRegister
    \/ JwtLogin
    \/ JwtRefresh
    \/ JwtLogout
    \/ ExpireAccess
    \/ ExpireRefresh

SpecJwt == Init /\ [][NextJwt]_vars

(***************************************************************************)
(* SpecCap: one account, register / login / refresh / logout one at a      *)
(* time, enough logins to exceed MAX_SESSIONS, the clock advancing or not  *)
(* between two stores                                                      *)
(***************************************************************************)
CapRegister ==
    \E password \in RegisterPasswords, date \in ClockValues :
        Register("a@x.com", password, "Test", "User", date, MaxCapTokens)

CapLogin ==
    \E email \in {"A@x.com", "b@x.com"}, password \in {"password123", "short"},
       date \in ClockValues :
        Login(email, password, date, TRUE, MaxCapTokens)

CapRefresh ==
    \E token \in IssuedRefresh, date \in ClockValues :
        Refresh(token, date, FALSE, MaxCapTokens)

CapLogout ==
    \E bearer \in IssuedAccess, token \in IssuedRefresh \cup {NoToken} :
        Logout(bearer, token, FALSE)

NextCap ==
    \/ CapRegister
    \/ CapLogin
    \/ CapRefresh
    \/ CapLogout

SpecCap == InitAuth /\ [][NextCap]_vars

(***************************************************************************)
(* Budgets. A request body is given as its fields plus, for the optional   *)
(* ones, whether the field is present (hasLimit, hasPeriod).               *)
(***************************************************************************)
ObjectId(n) == <<"oid", n>>
MalformedId == <<"not-an-id">>
IdInputs == {ObjectId(n) : n \in 1..MaxBudgets} \cup {MalformedId}

isValidObjectId(id) == Len(id) = 2 /\ id[1] = "oid"

BudgetOut(status, bs) == [status |-> status, budgets |-> bs]

periodOrDefault(hasPeriod, period) ==
    IF hasPeriod /\ period # "" THEN period ELSE "monthly"

findOneBudgetAnyPeriod(bs, userId, category, period) ==
    {b \in bs : b.userId = userId /\ b.category = category}

findOneBudget(bs, userId, category, period) ==
    {b \in bs : b.userId = userId /\ b.category = category /\ b.period = period}

createBudget(bearer, category, hasLimit, limit, hasPeriod, period) ==
    IF ~authenticate(bearer) THEN BudgetOut(401, budgets)
    ELSE IF category = "" \/ ~hasLimit \/ limit = 0 THEN BudgetOut(400, budgets)
    ELSE IF limit <= 0 THEN BudgetOut(400, budgets)
    ELSE IF hasPeriod /\ period # "" /\ period \notin Periods THEN BudgetOut(400, budgets)
    ELSE IF findOneBudget(budgets, bearer.userId, category,
                          periodOrDefault(hasPeriod, period)) # {}
    THEN BudgetOut(409, budgets)
    ELSE BudgetOut(201, budgets \cup
            {[_id |-> ObjectId(nextBid), userId |-> bearer.userId, category |-> category,
              limit |-> limit, period |-> periodOrDefault(hasPeriod, period)]})

(* a handler that saves the document after each field it assigns *)
updateBudgetSavesEachField(bearer, id, hasLimit, limit, hasPeriod, period) ==
    IF ~authenticate(bearer) THEN BudgetOut(401, budgets)
    ELSE IF ~isValidObjectId(id) THEN BudgetOut(400, budgets)
    ELSE LET found == {b \in budgets : b._id = id /\ b.userId = bearer.userId}
         IN IF found = {} THEN BudgetOut(404, budgets)
            ELSE IF hasLimit /\ limit <= 0 THEN BudgetOut(400, budgets)
            ELSE LET budget == CHOOSE b \in found : TRUE
                     first == [budget EXCEPT !.limit = IF hasLimit THEN limit ELSE @]
                 IN IF hasPeriod /\ period \notin Periods
                    THEN BudgetOut(400, (budgets \ {budget}) \cup {first})
                    ELSE BudgetOut(200, (budgets \ {budget}) \cup
                            {[first EXCEPT !.period = IF hasPeriod THEN period ELSE @]})

updateBudget(bearer, id, hasLimit, limit, hasPeriod, period) ==
    IF ~authenticate(bearer) THEN BudgetOut(401, budgets)
    ELSE IF ~isValidObjectId(id) THEN BudgetOut(400, budgets)
    ELSE LET found == {b \in budgets : b._id = id /\ b.userId = bearer.userId}
         IN IF found = {} THEN BudgetOut(404, budgets)
            ELSE IF hasLimit /\ limit <= 0 THEN BudgetOut(400, budgets)
            ELSE IF hasPeriod /\ period \notin Periods THEN BudgetOut(400, budgets)
            ELSE LET budget == CHOOSE b \in found : TRUE
                     saved == [budget EXCEPT
                                 !.limit = IF hasLimit THEN limit ELSE @,
                                 !.period = IF hasPeriod THEN period ELSE @]
                 IN BudgetOut(200, (budgets \ {budget}) \cup {saved})

deleteBudgetAnyOwner(bearer, id) ==
    IF ~authenticate(bearer) THEN BudgetOut(401, budgets)
    ELSE IF ~isValidObjectId(id) THEN BudgetOut(400, budgets)
    ELSE LET found == {b \in budgets : b._id = id}
         IN IF found = {} THEN BudgetOut(404, budgets)
            ELSE BudgetOut(200, budgets \ found)

deleteBudget(bearer, id) ==
    IF ~authenticate(bearer) THEN BudgetOut(401, budgets)
    ELSE IF ~isValidObjectId(id) THEN BudgetOut(400, budgets)
    ELSE LET found == {b \in budgets : b._id = id /\ b.userId = bearer.userId}
         IN IF found = {} THEN BudgetOut(404, budgets)
            ELSE BudgetOut(200, budgets \ found)

CreateBudget(bearer, category, hasLimit, limit, hasPeriod, period, watch) ==
    /\ nextBid <= MaxBudgets
    /\ LET out == createBudget(bearer, category, hasLimit, limit, hasPeriod, period)
       IN /\ budgets' = out.budgets
          /\ nextBid' = IF out.status = 201 THEN nextBid + 1 ELSE nextBid
          /\ Remember(watch /\ out.status = 409, Mark("conflict", bearer.userId, 0))
    /\ UNCHANGED <<env, authVars, timeVars, now, inflight, ledgerVars, categoryVars>>

UpdateBudget(bearer, id, hasLimit, limit, hasPeriod, period) ==
    /\ budgets' = updateBudget(bearer, id, hasLimit, limit, hasPeriod, period).budgets
    /\ UNCHANGED <<env, authVars, timeVars, now, nextBid, inflight, mark, ledgerVars, categoryVars>>

DeleteBudget(bearer, id) ==
    /\ budgets' = deleteBudget(bearer, id).budgets
    /\ UNCHANGED <<env, authVars, timeVars, now, nextBid, inflight, mark, ledgerVars, categoryVars>>

BudgetRegister ==
    \E email \in {"a@x.com", "b@x.com"} :
        Register(email, "password123", "Test", "User", now, MaxTokens)

BodyLimits ==
    {[has |-> FALSE, v |-> 0]} \cup {[has |-> TRUE, v |-> l] : l \in LimitInputs}

BodyPeriods ==
    {[has |-> FALSE, v |-> ""]} \cup {[has |-> TRUE, v |-> p] : p \in PeriodInputs}

DoCreateBudget ==
    \E bearer \in BearerTokens, category \in CategoryInputs,
       limit \in BodyLimits, period \in BodyPeriods :
        CreateBudget(bearer, category, limit.has, limit.v, period.has, period.v, TRUE)

UpdateBodies ==
    {body \in BodyLimits \X BodyPeriods :
        (body[1].has /\ body[2].has) => (body[1].v > 0 /\ body[2].v \in Periods)}

DoUpdateBudget ==
    \E bearer \in BearerTokens, id \in IdInputs, body \in UpdateBodies :
        UpdateBudget(bearer, id, body[1].has, body[1].v, body[2].has, body[2].v)

DoDeleteBudget ==
    \E bearer \in BearerTokens, id \in IdInputs : DeleteBudget(bearer, id)

NextBudget ==
    \/ BudgetRegister
    \/ DoCreateBudget
    \/ DoUpdateBudget
    \/ DoDeleteBudget

SpecBudget == InitAuth /\ [][NextBudget]_vars

(***************************************************************************)
(* Categories: models/Category, utils/seedCategories,                      *)
(* controllers/categoryController. The owner of a default category is      *)
(* null, written NoOwner. Icons are written by name.                       *)
(***************************************************************************)
NoOwner == 0

DEFAULT_CATEGORIES ==
    << [name |-> "Food & Dining", type |-> "expense", icon |-> "plate", color |-> "#FF6B6B"],
       [name |-> "Transportation", type |-> "expense", icon |-> "car", color |-> "#4ECDC4"],
       [name |-> "Entertainment", type |-> "expense", icon |-> "clapper", color |-> "#FFE66D"],
       [name |-> "Shopping", type |-> "expense", icon |-> "bags", color |-> "#FF69B4"],
       [name |-> "Utilities", type |-> "expense", icon |-> "bulb", color |-> "#95E1D3"],
       [name |-> "Healthcare", type |-> "expense", icon |-> "hospital", color |-> "#FF6F91"],
       [name |-> "Education", type |-> "expense", icon |-> "books", color |-> "#A8E6CF"],
       [name |-> "Travel", type |-> "expense", icon |-> "plane", color |-> "#FFD3B6"],
       [name |-> "Subscriptions", type |-> "expense", icon |-> "phone", color |-> "#FFAAA5"],
       [name |-> "Salary", type |-> "income", icon |-> "moneybag", color |-> "#6BCB77"],
       [name |-> "Freelance", type |-> "income", icon |-> "laptop", color |-> "#4D96FF"],
       [name |-> "Investment Returns", type |-> "income", icon |-> "chart", color |-> "#FFD93D"],
       [name |-> "Other", type |-> "expense", icon |-> "pin", color |-> "#999999"] >>

CategoryTypes == {"income", "expense"}

(* /^#[0-9A-F]{6}$/i on the colours that occur *)
isHexColor(color) ==
    color \in {"#FF5733", "#00ff00"} \cup
              {DEFAULT_CATEGORIES[i].color : i \in 1..Len(DEFAULT_CATEGORIES)}

(* the schema's setters on name (lowercase, trim), run on save and on the  *)
(* filter of a query                                                       *)
castName(name) == trim(toLowerCase(name))

DefaultDoc(cat, id) ==
    [_id |-> id, name |-> toLowerCase(cat.name), type |-> cat.type, icon |-> cat.icon,
     color |-> cat.color, isDefault |-> TRUE, userId |-> NoOwner]

(* one updateOne of the bulkWrite: filter { name, isDefault: true },       *)
(* $setOnInsert, upsert                                                    *)
upsertDefaultReplaces(cats, cat, id) ==
    {c \in cats : ~(c.name = castName(cat.name) /\ c.isDefault)} \cup {DefaultDoc(cat, id)}

upsertDefault(cats, cat, id) ==
    IF \E c \in cats : c.name = castName(cat.name) /\ c.isDefault
    THEN cats
    ELSE cats \cup {DefaultDoc(cat, id)}

RECURSIVE bulkWrite(_, _, _)
bulkWrite(cats, next, i) ==
    IF i > Len(DEFAULT_CATEGORIES) THEN [categories |-> cats, nextCid |-> next]
    ELSE LET after == upsertDefault(cats, DEFAULT_CATEGORIES[i], ObjectId(next))
         IN bulkWrite(after, IF after = cats THEN next ELSE next + 1, i + 1)

seedCategories(cats, next) == bulkWrite(cats, next, 1)

Defaults(cats) == {c \in cats : c.isDefault}

(* app.listen follows await seedCategories(): requests are served once     *)
(* the defaults are in the store                                           *)
Seeded == Cardinality(Defaults(categories)) >= Len(DEFAULT_CATEGORIES)

CategoryOut(status, cats) == [status |-> status, categories |-> cats]

(* optionalAuth: no Bearer header is anonymous, a Bearer token must verify *)
optionalAuth(bearer) ==
    IF bearer = NoToken THEN "anonymous"
    ELSE IF verifyAccessToken(bearer) THEN "user" ELSE "401"

getCategoriesAll(bearer, type) ==
    IF optionalAuth(bearer) = "401" THEN [status |-> 401, data |-> {}]
    ELSE [status |-> 200,
          data |-> {c \in categories : type \in CategoryTypes => c.type = type}]

getCategories(bearer, type) ==
    IF optionalAuth(bearer) = "401" THEN [status |-> 401, data |-> {}]
    ELSE [status |-> 200,
          data |-> {c \in categories :
                      /\ type \in CategoryTypes => c.type = type
                      /\ IF optionalAuth(bearer) = "user"
                         THEN c.isDefault \/ c.userId = bearer.userId
                         ELSE c.isDefault}]

findOneCategoryOwnOnly(cats, name, userId, exceptId) ==
    {c \in cats : c.name = castName(name) /\ c._id # exceptId /\ c.userId = userId}

findOneCategory(cats, name, userId, exceptId) ==
    {c \in cats : /\ c.name = castName(name)
                  /\ c._id # exceptId
                  /\ (c.userId = userId \/ c.isDefault)}

createCategory(bearer, name, type, icon, color) ==
    IF ~authenticate(bearer) THEN CategoryOut(401, categories)
    ELSE IF name = "" \/ type = "" \/ icon = "" \/ color = "" THEN CategoryOut(400, categories)
    ELSE IF type \notin CategoryTypes THEN CategoryOut(400, categories)
    ELSE IF ~isHexColor(color) THEN CategoryOut(400, categories)
    ELSE IF findOneCategory(categories, toLowerCase(name), bearer.userId, MalformedId) # {}
    THEN CategoryOut(409, categories)
    ELSE IF castName(name) = "" THEN CategoryOut(500, categories)
    ELSE CategoryOut(201, categories \cup
            {[_id |-> ObjectId(nextCid), name |-> castName(name), type |-> type,
              icon |-> icon, color |-> color, isDefault |-> FALSE,
              userId |-> bearer.userId]})

findOwnCategoryAnyOwner(cats, id, userId) == {c \in cats : c._id = id}

findOwnCategory(cats, id, userId) == {c \in cats : c._id = id /\ c.userId = userId}

updateCategory(bearer, id, name, icon, color) ==
    IF ~authenticate(bearer) THEN CategoryOut(401, categories)
    ELSE IF ~isValidObjectId(id) THEN CategoryOut(400, categories)
    ELSE LET found == findOwnCategory(categories, id, bearer.userId)
         IN IF found = {} THEN CategoryOut(404, categories)
            ELSE LET category == CHOOSE c \in found : TRUE
                 IN IF category.isDefault THEN CategoryOut(403, categories)
                    ELSE IF color # "" /\ ~isHexColor(color) THEN CategoryOut(400, categories)
                    ELSE IF name # "" /\ findOneCategory(categories, toLowerCase(name),
                                                         bearer.userId, id) # {}
                    THEN CategoryOut(409, categories)
                    ELSE IF name # "" /\ castName(name) = "" THEN CategoryOut(500, categories)
                    ELSE LET saved == [category EXCEPT
                                         !.color = IF color # "" THEN color ELSE @,
                                         !.name = IF name # "" THEN castName(name) ELSE @,
                                         !.icon = IF icon # "" THEN icon ELSE @]
                         IN CategoryOut(200, (categories \ {category}) \cup {saved})

deleteCategory(bearer, id) ==
    IF ~authenticate(bearer) THEN CategoryOut(401, categories)
    ELSE IF ~isValidObjectId(id) THEN CategoryOut(400, categories)
    ELSE LET found == findOwnCategory(categories, id, bearer.userId)
         IN IF found = {} THEN CategoryOut(404, categories)
            ELSE IF \E c \in found : c.isDefault THEN CategoryOut(403, categories)
            ELSE CategoryOut(200, {c \in categories : c._id # id})

(***************************************************************************)
(* Transactions: models/Transaction, controllers/transactionController.    *)
(* Amounts and limits are whole numbers of cents. A date is a calendar day *)
(* [y, m, d] with the month counted from 0 as Date does. An absent string  *)
(* field is "", an absent date is NoDate.                                  *)
(***************************************************************************)
Years == {2025, 2026}
Months == {0, 1}
Days == {1, 15}
Dates == [y : Years, m : Months, d : Days]
NoDate == [y |-> 0, m |-> 0, d |-> 0]

TransactionTypes == {"income", "expense"}

dateGte(a, b) ==
    \/ a.y > b.y
    \/ a.y = b.y /\ a.m > b.m
    \/ a.y = b.y /\ a.m = b.m /\ a.d >= b.d

LedgerOut(status, txs) == [status |-> status, transactions |-> txs]

createTransaction(bearer, type, hasAmount, amount, category, date, today) ==
    IF ~authenticate(bearer) THEN LedgerOut(401, transactions)
    ELSE IF type = "" \/ ~hasAmount \/ amount = 0 \/ category = ""
    THEN LedgerOut(400, transactions)
    ELSE IF type \notin TransactionTypes THEN LedgerOut(400, transactions)
    ELSE IF amount <= 0 THEN LedgerOut(400, transactions)
    ELSE LedgerOut(201, transactions \cup
            {[_id |-> ObjectId(nextTid), userId |-> bearer.userId, type |-> type,
              amount |-> amount, category |-> category,
              date |-> IF date # NoDate THEN date ELSE today]})

(* a malformed id makes the findOne throw, answered 500 by the catch *)
updateTransaction(bearer, id, type, hasAmount, amount, category, date) ==
    IF ~authenticate(bearer) THEN LedgerOut(401, transactions)
    ELSE IF ~isValidObjectId(id) THEN LedgerOut(500, transactions)
    ELSE LET found == {t \in transactions : t._id = id /\ t.userId = bearer.userId}
         IN IF found = {} THEN LedgerOut(404, transactions)
            ELSE IF type # "" /\ type \notin TransactionTypes THEN LedgerOut(400, transactions)
            ELSE IF hasAmount /\ amount <= 0 THEN LedgerOut(400, transactions)
            ELSE LET transaction == CHOOSE t \in found : TRUE
                     saved == [transaction EXCEPT
                                 !.type = IF type # "" THEN type ELSE @,
                                 !.amount = IF hasAmount THEN amount ELSE @,
                                 !.category = IF category # "" THEN category ELSE @,
                                 !.date = IF date # NoDate THEN date ELSE @]
                 IN LedgerOut(200, (transactions \ {transaction}) \cup {saved})

deleteTransaction(bearer, id) ==
    IF ~authenticate(bearer) THEN LedgerOut(401, transactions)
    ELSE IF ~isValidObjectId(id) THEN LedgerOut(500, transactions)
    ELSE LET found == {t \in transactions : t._id = id /\ t.userId = bearer.userId}
         IN IF found = {} THEN LedgerOut(404, transactions)
            ELSE LedgerOut(200, transactions \ found)

CreateTransaction(bearer, type, hasAmount, amount, category, date, today, cap) ==
    /\ nextTid <= cap
    /\ LET out == createTransaction(bearer, type, hasAmount, amount, category, date, today)
       IN /\ transactions' = out.transactions
          /\ nextTid' = IF out.status = 201 THEN nextTid + 1 ELSE nextTid
    /\ UNCHANGED <<env, authVars, timeVars, now, budgetVars, categoryVars, inflight, mark>>

UpdateTransaction(bearer, id, type, hasAmount, amount, category, date) ==
    /\ transactions' =
          updateTransaction(bearer, id, type, hasAmount, amount, category, date).transactions
    /\ UNCHANGED <<env, authVars, timeVars, now, budgetVars, nextTid, categoryVars,
                   inflight, mark>>

DeleteTransaction(bearer, id) ==
    /\ transactions' = deleteTransaction(bearer, id).transactions
    /\ UNCHANGED <<env, authVars, timeVars, now, budgetVars, nextTid, categoryVars,
                   inflight, mark>>

(***************************************************************************)
(* Category requests and startup                                           *)
(***************************************************************************)
Startup ==
    /\ ~Seeded
    /\ LET out == seedCategories(categories, nextCid)
       IN categories' = out.categories /\ nextCid' = out.nextCid
    /\ UNCHANGED <<env, authVars, timeVars, now, budgetVars, ledgerVars, seeding, inflight,
                   mark>>

CreateCategory(bearer, name, type, icon, color, cap) ==
    /\ Seeded
    /\ nextCid <= Len(DEFAULT_CATEGORIES) + cap
    /\ LET out == createCategory(bearer, name, type, icon, color)
       IN /\ categories' = out.categories
          /\ nextCid' = IF out.status = 201 THEN nextCid + 1 ELSE nextCid
    /\ UNCHANGED <<env, authVars, timeVars, now, budgetVars, ledgerVars, seeding, inflight,
                   mark>>

UpdateCategory(bearer, id, name, icon, color) ==
    /\ Seeded
    /\ categories' = updateCategory(bearer, id, name, icon, color).categories
    /\ UNCHANGED <<env, authVars, timeVars, now, budgetVars, ledgerVars, nextCid, seeding,
                   inflight, mark>>

DeleteCategory(bearer, id) ==
    /\ Seeded
    /\ categories' = deleteCategory(bearer, id).categories
    /\ UNCHANGED <<env, authVars, timeVars, now, budgetVars, ledgerVars, nextCid, seeding,
                   inflight, mark>>

(***************************************************************************)
(* Budget reports: controllers/budgetController (getBudgets, getBudget,    *)
(* the body answered by updateBudget, getBudgetStatus) and                 *)
(* controllers/analyticsController (getBudgetVsActual). The date of the    *)
(* request, new Date(), is the input today. A quotient is kept exact, as   *)
(* the pair <<numerator, denominator>>; the rounding of binary floating    *)
(* point is not represented. A list answered is a sequence.                *)
(***************************************************************************)
getPeriodStart(period, today) ==
    IF period = "monthly" THEN [y |-> today.y, m |-> today.m, d |-> 1]
    ELSE [y |-> today.y, m |-> 0, d |-> 1]

budgetSpentKey(category, period) == <<category, "::", period>>

(* $sum of amount over a set of documents *)
RECURSIVE sumAmount(_)
sumAmount(txs) ==
    IF txs = {} THEN 0
    ELSE LET t == CHOOSE x \in txs : TRUE
         IN t.amount + sumAmount(txs \ {t})

(* the $match stage of calculateSpentAmount and getSpentByCategory *)
matchExpensesAnyType(userId, cats, periodStart) ==
    {t \in transactions : /\ t.userId = userId
                          /\ t.category \in cats
                          /\ dateGte(t.date, periodStart)}

matchExpenses(userId, cats, periodStart) ==
    {t \in transactions : /\ t.userId = userId
                          /\ t.category \in cats
                          /\ t.type = "expense"
                          /\ dateGte(t.date, periodStart)}

calculateSpentAmount(userId, category, period, today) ==
    LET expenses == matchExpenses(userId, {category}, getPeriodStart(period, today))
    IN IF expenses = {} THEN 0 ELSE sumAmount(expenses)

(* [...new Set(budgets.map((b) => b.period))]: one aggregate is issued for *)
(* each element                                                            *)
spentPeriods(bs) == {b.period : b \in bs}

(* a single aggregate from the start of the month for all the budgets *)
getSpentByCategoryOnePass(userId, bs, today) ==
    LET expenses == matchExpenses(userId, {b.category : b \in bs},
                                  getPeriodStart("monthly", today))
        keys == {budgetSpentKey(t.category, b.period) : t \in expenses, b \in bs}
    IN [key \in keys |-> sumAmount({t \in expenses : t.category = key[1]})]

(* the Map from budgetSpentKey to the total of each row of the aggregates, *)
(* one aggregate per period of the budgets given. A key is kept as the     *)
(* triple of its parts: a period is 'monthly' or 'yearly', so the string   *)
(* determines both parts.                                                  *)
getSpentByCategory(userId, bs, today) ==
    LET expenses(period) ==
            matchExpenses(userId, {b.category : b \in {x \in bs : x.period = period}},
                          getPeriodStart(period, today))
        keys == UNION {{budgetSpentKey(t.category, period) : t \in expenses(period)} :
                          period \in spentPeriods(bs)}
    IN [key \in keys |-> sumAmount({t \in expenses(key[3]) : t.category = key[1]})]

(* Map.get(key) || 0 *)
getOrZero(map, key) == IF key \in DOMAIN map THEN map[key] ELSE 0

(* documents in the order a find without sort returns them, by _id *)
RECURSIVE naturalOrder(_)
naturalOrder(docs) ==
    IF docs = {} THEN <<>>
    ELSE LET first == CHOOSE x \in docs : \A y \in docs : x._id[2] <= y._id[2]
         IN <<first>> \o naturalOrder(docs \ {first})

(* Array.prototype.sort and the sort of a find: stable, ascending by rank; *)
(* ranked is a sequence of <<rank, element>>                               *)
RECURSIVE insertByRank(_, _)
insertByRank(sorted, pair) ==
    IF sorted = <<>> THEN <<pair>>
    ELSE IF Head(sorted)[1] <= pair[1]
         THEN <<Head(sorted)>> \o insertByRank(Tail(sorted), pair)
         ELSE <<pair>> \o sorted

RECURSIVE sortByRank(_)
sortByRank(ranked) ==
    IF ranked = <<>> THEN <<>>
    ELSE insertByRank(sortByRank(SubSeq(ranked, 1, Len(ranked) - 1)), ranked[Len(ranked)])

sorted(list, rank(_)) ==
    LET ranked == sortByRank([i \in 1..Len(list) |-> <<rank(list[i]), list[i]>>])
    IN [i \in 1..Len(ranked) |-> ranked[i][2]]

(* the order of the category names that occur *)
categoryRank(category) ==
    CASE category = "food" -> 1
      [] category = "rent" -> 2
      [] OTHER -> 3

ReportOut(status, data) == [status |-> status, data |-> data]

(* { ...budget.toObject(), spent, remaining, percentageUsed } *)
decorateClamped(budget, spent) ==
    [_id |-> budget._id, userId |-> budget.userId, category |-> budget.category,
     limit |-> budget.limit, period |-> budget.period, spent |-> spent,
     remaining |-> IF spent > budget.limit THEN 0 ELSE budget.limit - spent,
     percentageUsed |-> IF spent > budget.limit THEN <<100, 1>>
                        ELSE <<spent * 100, budget.limit>>]

decorate(budget, spent) ==
    [_id |-> budget._id, userId |-> budget.userId, category |-> budget.category,
     limit |-> budget.limit, period |-> budget.period, spent |-> spent,
     remaining |-> budget.limit - spent,
     percentageUsed |-> <<spent * 100, budget.limit>>]

getBudgets(bearer, period, today) ==
    IF ~authenticate(bearer) THEN ReportOut(401, <<>>)
    ELSE LET found == {b \in budgets : /\ b.userId = bearer.userId
                                       /\ period \in Periods => b.period = period}
             list == sorted(naturalOrder(found), LAMBDA b : categoryRank(b.category))
             spentByCategory == getSpentByCategory(bearer.userId, found, today)
         IN ReportOut(200,
               [i \in 1..Len(list) |->
                   decorate(list[i],
                            getOrZero(spentByCategory,
                                      budgetSpentKey(list[i].category, list[i].period)))])

getBudget(bearer, id, today) ==
    IF ~authenticate(bearer) THEN ReportOut(401, <<>>)
    ELSE IF ~isValidObjectId(id) THEN ReportOut(400, <<>>)
    ELSE LET found == {b \in budgets : b._id = id /\ b.userId = bearer.userId}
         IN IF found = {} THEN ReportOut(404, <<>>)
            ELSE LET budget == CHOOSE b \in found : TRUE
                 IN ReportOut(200,
                       <<decorate(budget,
                                  calculateSpentAmount(bearer.userId, budget.category,
                                                       budget.period, today))>>)

(* the body updateBudget answers with: the saved budget, decorated *)
updateBudgetData(bearer, id, hasLimit, limit, hasPeriod, period, today) ==
    LET out == updateBudget(bearer, id, hasLimit, limit, hasPeriod, period)
    IN IF out.status # 200 THEN ReportOut(out.status, <<>>)
       ELSE LET budget == CHOOSE b \in out.budgets : b._id = id
            IN ReportOut(200,
                  <<decorate(budget,
                             calculateSpentAmount(bearer.userId, budget.category,
                                                  budget.period, today))>>)

statusRankOkFirst(status) ==
    CASE status = "ok" -> 0
      [] status = "warning" -> 1
      [] OTHER -> 2

statusRank(status) ==
    CASE status = "over" -> 0
      [] status = "warning" -> 1
      [] OTHER -> 2

(* one element of getBudgetStatus; spent > limit * 0.8 in tenths *)
budgetStatusNearIncludesEqual(budget, spent) ==
    LET isOverBudget == spent > budget.limit
        isNearBudget == spent * 10 >= budget.limit * 8
    IN [category |-> budget.category, limit |-> budget.limit, spent |-> spent,
        remaining |-> budget.limit - spent,
        percentageUsed |-> <<spent * 100, budget.limit>>,
        period |-> budget.period, isOverBudget |-> isOverBudget,
        isNearBudget |-> isNearBudget,
        status |-> IF isOverBudget THEN "over" ELSE IF isNearBudget THEN "warning" ELSE "ok"]

budgetStatus(budget, spent) ==
    LET isOverBudget == spent > budget.limit
        isNearBudget == spent * 10 > budget.limit * 8
    IN [category |-> budget.category, limit |-> budget.limit, spent |-> spent,
        remaining |-> budget.limit - spent,
        percentageUsed |-> <<spent * 100, budget.limit>>,
        period |-> budget.period, isOverBudget |-> isOverBudget,
        isNearBudget |-> isNearBudget,
        status |-> IF isOverBudget THEN "over" ELSE IF isNearBudget THEN "warning" ELSE "ok"]

getBudgetStatus(bearer, today) ==
    IF ~authenticate(bearer) THEN ReportOut(401, <<>>)
    ELSE LET found == {b \in budgets : b.userId = bearer.userId}
             list == naturalOrder(found)
             spentByCategory == getSpentByCategory(bearer.userId, found, today)
             statuses == [i \in 1..Len(list) |->
                             budgetStatus(list[i],
                                          getOrZero(spentByCategory,
                                                    budgetSpentKey(list[i].category,
                                                                   list[i].period)))]
         IN ReportOut(200, sorted(statuses, LAMBDA e : statusRank(e.status)))

(* Math.round(x * 100) / 100 for x = num / den with den > 0, in hundredths *)
roundHundredthsDown(num, den) == (100 * num) \div den

roundHundredths(num, den) == (2 * 100 * num + den) \div (2 * den)

(* a date of the query: absent is NoDate, one that fails isValidDate is    *)
(* InvalidDate                                                             *)
InvalidDate == [y |-> -1, m |-> 0, d |-> 0]

isValidDate(value) == value # InvalidDate

(* one element of getBudgetVsActual; amounts are whole hundredths, and     *)
(* variancePercent is in hundredths of a percent                           *)
comparison(budget, actual) ==
    LET budgeted == budget.limit
        variance == budgeted - actual
    IN [category |-> budget.category,
        budgeted |-> roundHundredths(budgeted, 100),
        actual |-> roundHundredths(actual, 100),
        variance |-> roundHundredths(variance, 100),
        variancePercent |-> IF budgeted > 0 THEN roundHundredths(variance * 100, budgeted)
                            ELSE 0,
        period |-> budget.period]

getBudgetVsActual(bearer, startDate, endDate) ==
    IF ~authenticate(bearer) THEN ReportOut(401, <<>>)
    ELSE IF startDate # NoDate /\ ~isValidDate(startDate) THEN ReportOut(400, <<>>)
    ELSE IF endDate # NoDate /\ ~isValidDate(endDate) THEN ReportOut(400, <<>>)
    ELSE LET list == naturalOrder({b \in budgets : b.userId = bearer.userId})
             matched == {t \in transactions :
                           /\ t.userId = bearer.userId
                           /\ startDate # NoDate => dateGte(t.date, startDate)
                           /\ endDate # NoDate => dateGte(endDate, t.date)
                           /\ t.type = "expense"}
             actualMap == [category \in {t.category : t \in matched} |->
                              sumAmount({t \in matched : t.category = category})]
             comparisons == [i \in 1..Len(list) |->
                                comparison(list[i], getOrZero(actualMap, list[i].category))]
         IN ReportOut(200, sorted(comparisons, LAMBDA e : e.variance))

(* the requests that read: they answer and leave every collection as it is *)
GetBudgets(bearer, period, today) ==
    /\ getBudgets(bearer, period, today).status \in {200, 401}
    /\ UNCHANGED vars

GetBudget(bearer, id, today) ==
    /\ getBudget(bearer, id, today).status \in {200, 400, 401, 404}
    /\ UNCHANGED vars

GetBudgetStatus(bearer, today) ==
    /\ getBudgetStatus(bearer, today).status \in {200, 401}
    /\ UNCHANGED vars

GetBudgetVsActual(bearer, startDate, endDate) ==
    /\ getBudgetVsActual(bearer, startDate, endDate).status \in {200, 400, 401}
    /\ UNCHANGED vars

(***************************************************************************)
(* SpecLedger: two accounts with budgets and transactions, and the reports *)
(* on them                                                                 *)
(***************************************************************************)
Day(y, m, d) == [y |-> y, m |-> m, d |-> d]

(* the days on which reports are asked for *)
ReportDays == {Day(2026, 0, 15), Day(2026, 1, 15)}

TransactionBody(type, hasAmount, amount, category, date) ==
    [type |-> type, hasAmount |-> hasAmount, amount |-> amount, category |-> category,
     date |-> date]

CreateTransactionBodies ==
    {TransactionBody("expense", TRUE, 80, "food", Day(2026, 1, 1)),
     TransactionBody("expense", TRUE, 100, "food", Day(2026, 0, 15)),
     TransactionBody("income", TRUE, 100, "food", NoDate),
     TransactionBody("expense", TRUE, 100, "food", Day(2025, 1, 15)),
     TransactionBody("other", TRUE, 100, "food", NoDate),
     TransactionBody("expense", TRUE, 0, "food", NoDate),
     TransactionBody("expense", FALSE, 0, "food", NoDate)}

(* what the accounts after the first send *)
OtherAccountBody == TransactionBody("expense", TRUE, 80, "food", Day(2026, 1, 1))

UpdateTransactionBodies ==
    {TransactionBody("expense", TRUE, 200, "food", Day(2026, 1, 15)),
     TransactionBody("", FALSE, 0, "rent", NoDate),
     TransactionBody("", TRUE, -5, "", NoDate)}

LedgerCallers == IssuedAccess \cup {ForgedToken}

(* budgets and transactions in the store *)
LedgerDocs == Cardinality(budgets) + Cardinality(transactions)

LedgerRegister ==
    \E email \in {"a@x.com", "b@x.com"} :
        Register(email, "password123", "Test", "User", now, MaxTokens)

LedgerCreateBudget ==
    /\ LedgerDocs < MaxLedgerDocs
    /\ \E bearer \in LedgerCallers,
          body \in {<<"food", 100, "monthly">>, <<"food", 300, "yearly">>,
                    <<"rent", 100, "">>} :
          /\ bearer.userId # 1 => body[2] = 100 /\ body[1] = "food"
          /\ CreateBudget(bearer, body[1], TRUE, body[2], body[3] # "", body[3], FALSE)

UpdateBudgetBodies ==
    {<<FALSE, 0, TRUE, "yearly">>, <<TRUE, 300, FALSE, "">>, <<TRUE, -5, FALSE, "">>}

LedgerUpdateBudget ==
    \E bearer \in LedgerCallers, id \in IdInputs,
       body \in {<<FALSE, 0, TRUE, "yearly">>, <<TRUE, -5, FALSE, "">>} :
        UpdateBudget(bearer, id, body[1], body[2], body[3], body[4])

LedgerCreateTransaction ==
    /\ LedgerDocs < MaxLedgerDocs
    /\ \E bearer \in LedgerCallers,
          body \in CreateTransactionBodies :
          /\ bearer.userId # 1 => body = OtherAccountBody
          /\ CreateTransaction(bearer, body.type, body.hasAmount, body.amount, body.category,
                            body.date, Day(2026, 1, 15), MaxTransactions)

TransactionIds == {ObjectId(n) : n \in 1..MaxTransactions} \cup {MalformedId}

LedgerUpdateTransaction ==
    \E bearer \in LedgerCallers, id \in TransactionIds, body \in UpdateTransactionBodies :
        UpdateTransaction(bearer, id, body.type, body.hasAmount, body.amount, body.category,
                          body.date)

LedgerDeleteTransaction ==
    \E bearer \in LedgerCallers, id \in TransactionIds : DeleteTransaction(bearer, id)

LedgerGetBudgets ==
    \E bearer \in LedgerCallers, period \in {"", "yearly"} :
        GetBudgets(bearer, period, Day(2026, 1, 15))

LedgerGetBudget ==
    \E bearer \in LedgerCallers, id \in IdInputs :
        GetBudget(bearer, id, Day(2026, 1, 15))

LedgerGetBudgetStatus ==
    \E bearer \in LedgerCallers : GetBudgetStatus(bearer, Day(2026, 1, 15))

(* startDate and endDate of the query *)
DateRanges ==
    {<<NoDate, NoDate>>, <<Day(2026, 0, 15), Day(2026, 1, 1)>>, <<Day(2026, 1, 15), NoDate>>,
     <<InvalidDate, NoDate>>, <<NoDate, InvalidDate>>}

LedgerGetBudgetVsActual ==
    \E bearer \in LedgerCallers, range \in DateRanges :
        GetBudgetVsActual(bearer, range[1], range[2])

NextLedger ==
    \/ LedgerRegister
    \/ LedgerCreateBudget
    \/ LedgerUpdateBudget
    \/ LedgerCreateTransaction
    \/ LedgerUpdateTransaction
    \/ LedgerDeleteTransaction
    \/ LedgerGetBudgets
    \/ LedgerGetBudget
    \/ LedgerGetBudgetStatus
    \/ LedgerGetBudgetVsActual

SpecLedger == InitAuth /\ [][NextLedger]_vars

(***************************************************************************)
(* SpecTenant: two accounts that create, change, delete and read budgets   *)
(* and spend in the same category                                          *)
(***************************************************************************)
TenantDeleteBudget ==
    \E bearer \in LedgerCallers, id \in IdInputs : DeleteBudget(bearer, id)

TenantCreateTransaction ==
    /\ LedgerDocs < MaxLedgerDocs
    /\ \E bearer \in LedgerCallers :
          CreateTransaction(bearer, OtherAccountBody.type, OtherAccountBody.hasAmount,
                            OtherAccountBody.amount, OtherAccountBody.category,
                            OtherAccountBody.date, Day(2026, 1, 15), MaxTransactions)

NextTenant ==
    \/ LedgerRegister
    \/ LedgerCreateBudget
    \/ LedgerUpdateBudget
    \/ TenantDeleteBudget
    \/ TenantCreateTransaction
    \/ LedgerGetBudgets
    \/ LedgerGetBudget
    \/ LedgerGetBudgetStatus

SpecTenant == InitAuth /\ [][NextTenant]_vars

(***************************************************************************)
(* SpecProfile: accounts registered and their profiles updated             *)
(***************************************************************************)
ProfileEmails == EmailInputs \cup {"c@x.com"}
ProfilePasswords == {"short", "password123"}
ProfileNames == {"", "  ", "Test", "New"}

ProfRegister ==
    \E email \in ProfileEmails, password \in ProfilePasswords, firstName \in ProfileNames :
        Register(email, password, firstName, "User", now, MaxTokens)

ProfUpdateProfile ==
    \E bearer \in BearerTokens, email \in ProfileEmails, firstName \in ProfileNames :
        UpdateProfile(bearer, firstName, "", email)

ProfLogin ==
    \E email \in ProfileEmails : Login(email, "password123", now, FALSE, MaxTokens)

NextProfile ==
    \/ ProfRegister
    \/ ProfUpdateProfile
    \/ ProfLogin

SpecProfile == InitAuth /\ [][NextProfile]_vars

(***************************************************************************)
(* SpecSeed: several instances of the server starting against one          *)
(* database. startServer awaits connectDatabase() and then                 *)
(* seedCategories(), whose bulkWrite is ordered: the server carries out    *)
(* its updateOne upserts one after the other and stops at the first that   *)
(* fails. An upsert looks for a document matching its filter and, finding  *)
(* none, inserts one; upserts of different clients interleave between the  *)
(* two, and only a unique index makes the later insert fail. The unique    *)
(* index { name, userId } of the schema is created by the model once the   *)
(* connection is open; neither connectDatabase nor seedCategories waits    *)
(* for it.                                                                 *)
(***************************************************************************)
SeedVars == <<env, authVars, timeVars, now, budgetVars, ledgerVars, inflight, mark>>

(* the filter of an updateOne: { name: cat.name.toLowerCase(), isDefault: true } *)
findDefault(cats, cat) == {c \in cats : c.name = castName(cat.name) /\ c.isDefault}

(* two documents with one key of the index { name: 1, userId: 1 } *)
DuplicateKey(cats) ==
    \E c1, c2 \in cats : c1 # c2 /\ c1.name = c2.name /\ c1.userId = c2.userId

(* the operation after op of the bulkWrite, or its end *)
nextOperation(run) ==
    IF run.op = Len(DEFAULT_CATEGORIES) THEN [run EXCEPT !.pc = "done"]
    ELSE [run EXCEPT !.pc = "find", !.op = @ + 1]

(* an instance starts, or starts again, and reaches Category.bulkWrite *)
SeedStart(k) ==
    /\ seeding.run[k].pc \in {"idle", "done", "failed"}
    /\ seeding.run[k].runs < MaxSeedRuns
    /\ seeding' = [seeding EXCEPT !.run[k] = [pc |-> "find", op |-> 1, runs |-> @.runs + 1]]
    /\ UNCHANGED <<categories, nextCid>>
    /\ UNCHANGED SeedVars

(* the model of a started instance creates the index of the schema; the    *)
(* build fails when the collection holds two documents with one key        *)
BuildIndex ==
    /\ seeding.index = "none"
    /\ \E k \in Instances : seeding.run[k].pc # "idle"
    /\ seeding' = [seeding EXCEPT !.index = IF DuplicateKey(categories) THEN "failed"
                                            ELSE "built"]
    /\ UNCHANGED <<categories, nextCid>>
    /\ UNCHANGED SeedVars

(* default categories beyond one for each name *)
Duplicates(cats) ==
    Cardinality(Defaults(cats)) - Cardinality({c.name : c \in Defaults(cats)})

(* the query of the upsert of operation op; it runs between the query and  *)
(* the insert of the same upsert of another instance at most MaxDuplicates *)
(* times                                                                   *)
SeedFind(k) ==
    /\ seeding.run[k].pc = "find"
    /\ (\E j \in Instances \ {k} : /\ seeding.run[j].pc = "insert"
                                     /\ seeding.run[j].op = seeding.run[k].op)
          => Duplicates(categories) < MaxDuplicates
    /\ seeding' = [seeding EXCEPT !.run[k] =
                      IF findDefault(categories, DEFAULT_CATEGORIES[@.op]) # {}
                      THEN nextOperation(@)
                      ELSE [@ EXCEPT !.pc = "insert"]]
    /\ UNCHANGED <<categories, nextCid>>
    /\ UNCHANGED SeedVars

(* the insert of the upsert: a duplicate key error ends the bulkWrite,     *)
(* seedCategories rethrows and startServer exits                           *)
SeedInsert(k) ==
    /\ seeding.run[k].pc = "insert"
    /\ LET doc == DefaultDoc(DEFAULT_CATEGORIES[seeding.run[k].op], ObjectId(nextCid))
       IN IF seeding.index = "built" /\ DuplicateKey(categories \cup {doc})
          THEN /\ seeding' = [seeding EXCEPT !.run[k].pc = "failed"]
               /\ UNCHANGED <<categories, nextCid>>
          ELSE /\ seeding' = [seeding EXCEPT !.run[k] = nextOperation(@)]
               /\ categories' = categories \cup {doc}
               /\ nextCid' = nextCid + 1
    /\ UNCHANGED SeedVars

NextSeed ==
    \/ \E k \in Instances : SeedStart(k)
    \/ BuildIndex
    \/ \E k \in Instances : SeedFind(k)
    \/ \E k \in Instances : SeedInsert(k)

SpecSeed == InitAuth /\ [][NextSeed]_vars

(***************************************************************************)
(* SpecAccount: two accounts that come to own budgets, transactions and    *)
(* categories, and are deleted                                             *)
(***************************************************************************)
AcctRegister ==
    /\ Seeded
    /\ \E email \in {"a@x.com", "b@x.com"} :
          Register(email, "password123", "Test", "User", now, MaxTokens)

(* documents created so far by requests *)
AcctDocs == (nextBid - 1) + (nextTid - 1) + (nextCid - 1 - Cardinality(Defaults(categories)))

AcctCreateBudget ==
    /\ Seeded
    /\ AcctDocs < MaxAcctDocs
    /\ \E bearer \in IssuedAccess :
          CreateBudget(bearer, "food", TRUE, 100, FALSE, "", FALSE)

AcctCreateTransaction ==
    /\ Seeded
    /\ AcctDocs < MaxAcctDocs
    /\ \E bearer \in IssuedAccess, today \in {[y |-> 2026, m |-> 0, d |-> 15]} :
          CreateTransaction(bearer, "expense", TRUE, 100, "food", NoDate, today,
                            MaxAcctDocs)

AcctCreateCategory ==
    /\ AcctDocs < MaxAcctDocs
    /\ \E bearer \in IssuedAccess, name \in {"Pets", "Salary"} :
          CreateCategory(bearer, name, "expense", "paw", "#FF5733", MaxAcctDocs)

AcctDeleteAccount ==
    /\ Seeded
    /\ \E bearer \in BearerTokens, watch \in BOOLEAN : DeleteAccount(bearer, watch)

NextAccount ==
    \/ Startup
    \/ AcctRegister
    \/ AcctCreateBudget
    \/ AcctCreateTransaction
    \/ AcctCreateCategory
    \/ AcctDeleteAccount

SpecAccount == InitAuth /\ [][NextAccount]_vars

(***************************************************************************)
(* SpecCategory: two accounts listing, creating, renaming and deleting     *)
(* categories next to the seeded defaults                                  *)
(***************************************************************************)
GetCategories(bearer, type, watch) ==
    /\ Seeded
    /\ LET out == getCategories(bearer, type)
       IN Remember(watch, Mark("getCategories",
                               IF optionalAuth(bearer) = "user" THEN bearer.userId ELSE NoOwner,
                               out.status))
    /\ UNCHANGED <<env, authVars, timeVars, now, budgetVars, ledgerVars, categoryVars,
                   inflight>>

CategoryNames == {"", "Pets", " Pets ", "pets", "vet", "Salary", "  "}
CreateCategoryBodies ==
    {[name |-> n, type |-> "expense", icon |-> "paw", color |-> "#FF5733"] :
        n \in CategoryNames \ {"vet"}}
      \cup {[name |-> "Pets", type |-> "other", icon |-> "paw", color |-> "red"]}
UpdateCategoryBodies ==
    {[name |-> n, icon |-> "", color |-> ""] : n \in {"Pets", " Pets ", "Salary"}}
      \cup {[name |-> "vet", icon |-> "dog", color |-> "#00ff00"],
            [name |-> "  ", icon |-> "", color |-> ""],
            [name |-> "", icon |-> "", color |-> "red"]}
CategoryCallers == IssuedAccess \cup {ForgedToken}
CategoryIds ==
    {ObjectId(Len(DEFAULT_CATEGORIES))}
      \cup {ObjectId(Len(DEFAULT_CATEGORIES) + n) : n \in 1..MaxCategories}
      \cup {MalformedId}

CatRegister ==
    /\ Seeded
    /\ \E email \in {"a@x.com", "b@x.com"} :
          Register(email, "password123", "Test", "User", now, MaxTokens)

CatCreateCategory ==
    \E bearer \in CategoryCallers, body \in CreateCategoryBodies :
        CreateCategory(bearer, body.name, body.type, body.icon, body.color, MaxCategories)

CatUpdateCategory ==
    \E bearer \in CategoryCallers, id \in CategoryIds, body \in UpdateCategoryBodies :
        UpdateCategory(bearer, id, body.name, body.icon, body.color)

CatDeleteCategory ==
    \E bearer \in CategoryCallers, id \in CategoryIds : DeleteCategory(bearer, id)

CatDeleteAccount ==
    /\ Seeded
    /\ \E bearer \in CategoryCallers : DeleteAccount(bearer, FALSE)

NextCategory ==
    \/ Startup
    \/ CatRegister
    \/ CatCreateCategory
    \/ CatUpdateCategory
    \/ CatDeleteCategory
    \/ CatDeleteAccount

SpecCategory == InitAuth /\ [][NextCategory]_vars

(***************************************************************************)
(* SpecListing: accounts with categories of their own, and callers of      *)
(* every kind listing the categories                                       *)
(***************************************************************************)
ListRegister ==
    /\ Seeded
    /\ \E email \in {"a@x.com", "b@x.com"} :
          Register(email, "password123", "Test", "User", now, MaxTokens)

ListGetCategories ==
    \E bearer \in BearerTokens, type \in {"", "income", "other"}, watch \in BOOLEAN :
        GetCategories(bearer, type, watch)

ListCreateCategory ==
    \E bearer \in IssuedAccess, name \in {"Pets", "vet"}, type \in CategoryTypes :
        CreateCategory(bearer, name, type, "paw", "#FF5733", MaxCategories)

ListExpireAccess == Seeded /\ ExpireAccess

NextListing ==
    \/ Startup
    \/ ListRegister
    \/ ListGetCategories
    \/ ListCreateCategory
    \/ ListExpireAccess

SpecListing == InitAuth /\ [][NextListing]_vars

(***************************************************************************)
(* SpecConc: refresh requests running concurrently. A request advances     *)
(* from one await to the next in one step; each store operation            *)
(* (findById, findByIdAndUpdate, save) is atomic.                          *)
(***************************************************************************)
Done(r, status) ==
    inflight' = [inflight EXCEPT ![r].pc = "done", ![r].status = status]

(* lines 662-683: body check, verifyRefreshToken, User.findById *)
RefreshStart(r, token) ==
    /\ inflight[r].pc = "idle"
    /\ inflight' = [inflight EXCEPT ![r] =
          IF token = NoToken
          THEN [Idle EXCEPT !.pc = "done", !.token = token, !.status = 400]
          ELSE IF ~verifyRefreshToken(token)
          THEN [Idle EXCEPT !.pc = "done", !.token = token, !.status = 401]
          ELSE IF ~users[token.userId].exists
          THEN [Idle EXCEPT !.pc = "done", !.token = token, !.status = 401]
          ELSE [Idle EXCEPT !.pc = "verifyStored", !.token = token,
                            !.email = users[token.userId].email]]
    /\ UNCHANGED <<env, authVars, timeVars, now, budgetVars, ledgerVars, categoryVars, mark>>

(* line 686: verifyStoredRefreshToken reads the list *)
RefreshVerifyStored(r) ==
    /\ inflight[r].pc = "verifyStored"
    /\ inflight' = [inflight EXCEPT ![r].pc =
          IF verifyStoredRefreshToken(users, inflight[r].token.userId, inflight[r].token)
          THEN "remove" ELSE "revokeAll"]
    /\ UNCHANGED <<env, authVars, timeVars, now, budgetVars, ledgerVars, categoryVars, mark>>

(* lines 687-695: removeAllRefreshTokens, 401 *)
RefreshRevokeAll(r) ==
    /\ inflight[r].pc = "revokeAll"
    /\ users' = removeAllRefreshTokens(users, inflight[r].token.userId)
    /\ Done(r, 401)
    /\ UNCHANGED <<env, nextUid, issued, timeVars, now, budgetVars, ledgerVars, categoryVars, mark>>

(* lines 698-701: removeRefreshToken, then the new pair is signed *)
RefreshRemove(r, cap) ==
    /\ inflight[r].pc = "remove"
    /\ Len(issued) < cap
    /\ LET id == inflight[r].token.userId
           n == Len(issued) + 1
           newRefreshToken == generateRefreshToken(id, inflight[r].email, n, n)
       IN /\ users' = removeRefreshToken(users, id, inflight[r].token)
          /\ Issue(newRefreshToken)
          /\ inflight' = [inflight EXCEPT ![r].pc = "storeRead", ![r].rt = newRefreshToken]
    /\ UNCHANGED <<env, nextUid, timeVars, now, budgetVars, ledgerVars, categoryVars, mark>>

(* storeRefreshToken, lines 177-178: findById; a missing user returns *)
RefreshStoreRead(r) ==
    /\ inflight[r].pc = "storeRead"
    /\ LET id == inflight[r].token.userId
       IN IF ~users[id].exists
          THEN Done(r, 200)
          ELSE inflight' = [inflight EXCEPT ![r].pc = "storeSave",
                                            ![r].doc = users[id].refreshTokens,
                                            ![r].docVersion = users[id].version]
    /\ UNCHANGED <<env, authVars, timeVars, now, budgetVars, ledgerVars, categoryVars, mark>>

(* storeRefreshToken, lines 180-189: push, evict, user.save(). A pushed    *)
(* entry is saved as $push on the stored array; a reassigned array is      *)
(* saved as $set guarded by the version read, and fails on a mismatch.     *)
RefreshStoreSave(r, date) ==
    /\ inflight[r].pc = "storeSave"
    /\ LET id == inflight[r].token.userId
           entry == [tokenHash |-> sha256(inflight[r].rt), createdAt |-> date]
           local == pushAndEvict(inflight[r].doc, entry.tokenHash, date)
           reassigned == Len(inflight[r].doc) + 1 > MAX_SESSIONS
       IN IF ~users[id].exists \/ (reassigned /\ users[id].version # inflight[r].docVersion)
          THEN Done(r, 401) /\ UNCHANGED <<users, now>>
          ELSE /\ users' = [users EXCEPT
                              ![id].refreshTokens =
                                  IF reassigned THEN local ELSE Append(@, entry),
                              ![id].version = @ + 1]
               /\ now' = date
               /\ Done(r, 200)
    /\ UNCHANGED <<env, nextUid, issued, timeVars, budgetVars, ledgerVars, categoryVars, mark>>

ConcRegister ==
    \E email \in {"a@x.com", "b@x.com"} :
        Register(email, "password123", "Test", "User", now, MaxConcTokens)

ConcRefreshStart == \E r \in Requests, token \in BodyTokens : RefreshStart(r, token)

ConcRefreshVerifyStored == \E r \in Requests : RefreshVerifyStored(r)

ConcRefreshRevokeAll == \E r \in Requests : RefreshRevokeAll(r)

ConcRefreshRemove == \E r \in Requests : RefreshRemove(r, MaxConcTokens)

ConcRefreshStoreRead == \E r \in Requests : RefreshStoreRead(r)

ConcRefreshStoreSave == \E r \in Requests, date \in ClockValues : RefreshStoreSave(r, date)

NextConc ==
    \/ ConcRegister
    \/ ConcRefreshStart
    \/ ConcRefreshVerifyStored
    \/ ConcRefreshRevokeAll
    \/ ConcRefreshRemove
    \/ ConcRefreshStoreRead
    \/ ConcRefreshStoreSave

SpecConc == InitAuth /\ [][NextConc]_vars

(***************************************************************************)
(* SpecSkew: status overviews running concurrently with requests that      *)
(* create and delete transactions. An overview is suspended at             *)
(* await Budget.find and at the aggregates of getSpentByCategory, which    *)
(* the store runs one at a time in any order. The request keeps its caller *)
(* in token; in doc it keeps the budgets it found, the periods whose       *)
(* aggregate has not run yet, the Map filled so far and the data answered. *)
(***************************************************************************)
(* one aggregate of getSpentByCategory and its rows as entries of the Map *)
aggregatePeriod(userId, bs, period, today) ==
    LET expenses ==
            matchExpenses(userId, {b.category : b \in {x \in bs : x.period = period}},
                          getPeriodStart(period, today))
    IN [key \in {budgetSpentKey(t.category, period) : t \in expenses} |->
           sumAmount({t \in expenses : t.category = key[1]})]

(* result.set(key, total) for each entry of rows *)
setAll(result, rows) ==
    [key \in DOMAIN result \cup DOMAIN rows |->
        IF key \in DOMAIN rows THEN rows[key] ELSE result[key]]

(* lines 299-309: authentication, Budget.find, the periods of the budgets *)
OverviewFind(r, bearer) ==
    /\ inflight[r].pc = "idle"
    /\ inflight' = [inflight EXCEPT ![r] =
          IF ~authenticate(bearer)
          THEN [Idle EXCEPT !.pc = "done", !.token = bearer, !.status = 401]
          ELSE LET found == {b \in budgets : b.userId = bearer.userId}
               IN [Idle EXCEPT !.pc = "aggregate", !.token = bearer,
                               !.doc = [budgets |-> found, pending |-> spentPeriods(found),
                                        result |-> <<>>, data |-> <<>>]]]
    /\ UNCHANGED <<env, authVars, timeVars, now, budgetVars, ledgerVars, categoryVars, mark>>

(* lines 365-384: the aggregate of one period runs *)
OverviewAggregate(r, period, today) ==
    /\ inflight[r].pc = "aggregate"
    /\ period \in inflight[r].doc.pending
    /\ LET doc == inflight[r].doc
           rows == aggregatePeriod(inflight[r].token.userId, doc.budgets, period, today)
       IN inflight' = [inflight EXCEPT ![r].doc =
              [doc EXCEPT !.pending = @ \ {period}, !.result = setAll(@, rows)]]
    /\ UNCHANGED <<env, authVars, timeVars, now, budgetVars, ledgerVars, categoryVars, mark>>

(* lines 386, 311-338: Promise.all resolves, the entries are built, sorted *)
(* and answered                                                            *)
OverviewAnswer(r) ==
    /\ inflight[r].pc = "aggregate"
    /\ inflight[r].doc.pending = {}
    /\ LET doc == inflight[r].doc
           list == naturalOrder(doc.budgets)
           statuses == [i \in 1..Len(list) |->
                           budgetStatus(list[i],
                                        getOrZero(doc.result,
                                                  budgetSpentKey(list[i].category,
                                                                 list[i].period)))]
       IN inflight' = [inflight EXCEPT
              ![r].pc = "done", ![r].status = 200,
              ![r].doc = [doc EXCEPT
                            !.data = sorted(statuses, LAMBDA e : statusRank(e.status))]]
    /\ UNCHANGED <<env, authVars, timeVars, now, budgetVars, ledgerVars, categoryVars, mark>>

SkewRegister == Register("a@x.com", "password123", "Test", "User", now, MaxTokens)

SkewCreateBudget ==
    \E bearer \in IssuedAccess, body \in {<<"food", 100, "monthly">>, <<"food", 300, "yearly">>} :
        CreateBudget(bearer, body[1], TRUE, body[2], TRUE, body[3], FALSE)

SkewCreateTransaction ==
    \E bearer \in IssuedAccess :
        CreateTransaction(bearer, OtherAccountBody.type, OtherAccountBody.hasAmount,
                          OtherAccountBody.amount, OtherAccountBody.category,
                          OtherAccountBody.date, Day(2026, 1, 15), MaxTransactions)

SkewDeleteTransaction ==
    \E bearer \in IssuedAccess, id \in TransactionIds : DeleteTransaction(bearer, id)

SkewOverviewFind ==
    \E r \in Requests, bearer \in IssuedAccess \cup {ForgedToken} : OverviewFind(r, bearer)

SkewOverviewAggregate ==
    \E r \in Requests, period \in Periods : OverviewAggregate(r, period, Day(2026, 1, 15))

SkewOverviewAnswer == \E r \in Requests : OverviewAnswer(r)

NextSkew ==
    \/ SkewRegister
    \/ SkewCreateBudget
    \/ SkewCreateTransaction
    \/ SkewDeleteTransaction
    \/ SkewOverviewFind
    \/ SkewOverviewAggregate
    \/ SkewOverviewAnswer

SpecSkew == InitAuth /\ [][NextSkew]_vars

(***************************************************************************)
(* SpecRevoke: refresh requests running concurrently with password         *)
(* changes; a password change is handled between two steps of a refresh    *)
(***************************************************************************)
RevokeChangePassword ==
    \E bearer \in IssuedAccess, newPassword \in {"newpassword456", "short"} :
        ChangePassword(bearer, "password123", newPassword, TRUE)

NextRevoke ==
    \/ ConcRegister
    \/ RevokeChangePassword
    \/ ConcRefreshStart
    \/ ConcRefreshVerifyStored
    \/ ConcRefreshRevokeAll
    \/ ConcRefreshRemove
    \/ ConcRefreshStoreRead
    \/ ConcRefreshStoreSave

SpecRevoke == InitAuth /\ [][NextRevoke]_vars

(***************************************************************************)
(* SpecValidation: requests that create and change budgets, categories and *)
(* profiles, some of them with a field that is refused after another field *)
(* of the same body was accepted                                           *)
(***************************************************************************)
ValCreateBudgetBodies ==
    {<<"food", TRUE, 100, FALSE, "">>, <<"food", TRUE, 100, TRUE, "weekly">>,
     <<"", TRUE, 100, FALSE, "">>}

ValUpdateBudgetBodies ==
    {<<TRUE, 300, TRUE, "weekly">>, <<TRUE, 300, FALSE, "">>, <<TRUE, -5, TRUE, "yearly">>}

(* firstName, lastName, email *)
ValProfileBodies ==
    {<<"New", "", "">>, <<"  ", "", "c@x.com">>, <<"New", "  ", "c@x.com">>,
     <<"New", "", "b@x.com">>, <<"New", "", "a@x.com">>, <<"", "", "nobody">>}

ValCreateCategoryBodies ==
    {[name |-> "Pets", type |-> "expense", icon |-> "paw", color |-> "#FF5733"],
     [name |-> "Salary", type |-> "income", icon |-> "paw", color |-> "#FF5733"],
     [name |-> "Pets", type |-> "expense", icon |-> "paw", color |-> "red"]}

ValUpdateCategoryBodies ==
    {[name |-> "Salary", icon |-> "dog", color |-> "#00ff00"],
     [name |-> "vet", icon |-> "dog", color |-> "#00ff00"],
     [name |-> "vet", icon |-> "dog", color |-> "red"]}

ValCallers == IssuedAccess \cup {ForgedToken}

ValCreateBudget ==
    \E bearer \in ValCallers, body \in ValCreateBudgetBodies :
        CreateBudget(bearer, body[1], body[2], body[3], body[4], body[5], FALSE)

ValUpdateBudget ==
    \E bearer \in ValCallers, id \in IdInputs, body \in ValUpdateBudgetBodies :
        UpdateBudget(bearer, id, body[1], body[2], body[3], body[4])

ValUpdateProfile ==
    \E bearer \in ValCallers, body \in ValProfileBodies :
        UpdateProfile(bearer, body[1], body[2], body[3])

ValCreateCategory ==
    \E bearer \in ValCallers, body \in ValCreateCategoryBodies :
        CreateCategory(bearer, body.name, body.type, body.icon, body.color, MaxCategories)

ValUpdateCategory ==
    \E bearer \in ValCallers, id \in CategoryIds, body \in ValUpdateCategoryBodies :
        UpdateCategory(bearer, id, body.name, body.icon, body.color)

NextValidation ==
    \/ Startup
    \/ CatRegister
    \/ ValCreateBudget
    \/ ValUpdateBudget
    \/ ValUpdateProfile
    \/ ValCreateCategory
    \/ ValUpdateCategory

SpecValidation == InitAuth /\ [][NextValidation]_vars

(***************************************************************************)
(* SpecBudgetRace: createBudget requests running concurrently. A request   *)
(* is suspended at await Budget.findOne and at await budget.save(); the    *)
(* findOne and the insert are atomic each. The request keeps its caller in *)
(* token and the document it built in doc.                                 *)
(***************************************************************************)
(* Model.save of a new document under a unique index on the three fields:  *)
(* a second document of the same key is refused                            *)
insertOneUnique(bs, doc) ==
    IF findOneBudget(bs, doc.userId, doc.category, doc.period) # {}
    THEN [ok |-> FALSE, budgets |-> bs]
    ELSE [ok |-> TRUE, budgets |-> bs \cup {doc}]

(* Model.save of a new document: insertOne; the indexes of the Budget      *)
(* schema are not unique, so nothing is refused                            *)
insertOne(bs, doc) == [ok |-> TRUE, budgets |-> bs \cup {doc}]

(* lines 16-63: authentication, validation, Budget.findOne *)
CreateBudgetFind(r, bearer, category, hasLimit, limit, hasPeriod, period) ==
    /\ inflight[r].pc = "idle"
    /\ inflight' = [inflight EXCEPT ![r] =
          IF ~authenticate(bearer)
          THEN [Idle EXCEPT !.pc = "done", !.token = bearer, !.status = 401]
          ELSE IF category = "" \/ ~hasLimit \/ limit = 0
          THEN [Idle EXCEPT !.pc = "done", !.token = bearer, !.status = 400]
          ELSE IF limit <= 0
          THEN [Idle EXCEPT !.pc = "done", !.token = bearer, !.status = 400]
          ELSE IF hasPeriod /\ period # "" /\ period \notin Periods
          THEN [Idle EXCEPT !.pc = "done", !.token = bearer, !.status = 400]
          ELSE IF findOneBudget(budgets, bearer.userId, category,
                                periodOrDefault(hasPeriod, period)) # {}
          THEN [Idle EXCEPT !.pc = "done", !.token = bearer, !.status = 409]
          ELSE [Idle EXCEPT !.pc = "budgetSave", !.token = bearer,
                            !.doc = [userId |-> bearer.userId, category |-> category,
                                     limit |-> limit,
                                     period |-> periodOrDefault(hasPeriod, period)]]]
    /\ UNCHANGED <<env, authVars, timeVars, now, budgetVars, ledgerVars, categoryVars, mark>>

(* lines 65-80: new Budget, budget.save(), 201; a refused save is caught   *)
(* and answered 500                                                        *)
CreateBudgetSave(r) ==
    /\ inflight[r].pc = "budgetSave"
    /\ LET doc == inflight[r].doc
           saved == insertOne(budgets, [_id |-> ObjectId(nextBid), userId |-> doc.userId,
                                        category |-> doc.category, limit |-> doc.limit,
                                        period |-> doc.period])
       IN /\ budgets' = saved.budgets
          /\ nextBid' = IF saved.ok THEN nextBid + 1 ELSE nextBid
          /\ Done(r, IF saved.ok THEN 201 ELSE 500)
    /\ UNCHANGED <<env, authVars, timeVars, now, ledgerVars, categoryVars, mark>>

RaceRegister ==
    \E email \in {"a@x.com", "b@x.com"} :
        Register(email, "password123", "Test", "User", now, MaxTokens)

RaceBodies ==
    {<<"food", TRUE, 100, FALSE, "">>, <<"food", TRUE, 300, TRUE, "monthly">>,
     <<"food", TRUE, 100, TRUE, "yearly">>, <<"food", TRUE, 100, TRUE, "weekly">>,
     <<"", TRUE, 100, FALSE, "">>, <<"food", TRUE, -5, FALSE, "">>}

RaceCreateBudgetFind ==
    \E r \in Requests, bearer \in IssuedAccess \cup {ForgedToken}, body \in RaceBodies :
        CreateBudgetFind(r, bearer, body[1], body[2], body[3], body[4], body[5])

RaceCreateBudgetSave == \E r \in Requests : CreateBudgetSave(r)

NextBudgetRace ==
    \/ RaceRegister
    \/ RaceCreateBudgetFind
    \/ RaceCreateBudgetSave

SpecBudgetRace == InitAuth /\ [][NextBudgetRace]_vars

TypeOK ==
    /\ nextUid \in 1..(MaxUsers + 1)
    /\ expR <= expA
    /\ expA <= Len(issued)
    /\ now \in 0..MaxTime
    /\ \A u \in UserIds : ~users[u].exists => users[u] = NoUser

(***************************************************************************)
(* Properties                                                              *)
(***************************************************************************)
IsStored(t) == users[t.userId].exists /\ sha256(t) \in Hashes(users[t.userId])

(* C1 as stated: with requests handled one at a time, a refresh presenting *)
(* a refresh token T whose hash is stored for its user answers 200,        *)
(* removes T's hash, stores the hash of a new token T' # T; a second       *)
(* refresh with the same T answers 401.                                    *)
C1_AnyStoredTokenRotates ==
    /\ \A t \in IssuedRefresh :
          IsStored(t) =>
             LET out == refreshToken(t, now)
             IN /\ out.status = 200
                /\ sha256(t) \notin Hashes(out.users[t.userId])
                /\ out.rt # NoToken /\ out.rt # t
                /\ sha256(out.rt) \in Hashes(out.users[t.userId])
    /\ mark.kind = "rotation" => refreshToken(RefreshTokenOf(mark.a), now).status = 401

(* C1 amended: with requests handled one at a time, a refresh presenting   *)
(* an unexpired refresh token T whose hash is stored for its user answers  *)
(* 200, removes T's hash from that user's list and stores the hash of a    *)
(* newly issued token T' # T; every later refresh presenting the same T    *)
(* answers 401 (T succeeds exactly once).                                  *)
C1_RotatesExactlyOnce ==
    /\ \A t \in IssuedRefresh :
          IsStored(t) /\ verifyRefreshToken(t) =>
             LET out == refreshToken(t, now)
             IN /\ out.status = 200
                /\ sha256(t) \notin Hashes(out.users[t.userId])
                /\ out.rt # NoToken /\ out.rt # t
                /\ sha256(out.rt) \in Hashes(out.users[t.userId])
    /\ mark.kind = "rotation" => refreshToken(RefreshTokenOf(mark.a), now).status = 401

(* a token was rotated and presented a second time *)
C1_Witness == mark.kind = "rotation" /\ mark.reused

(* C2: a refresh presenting a correctly signed, unexpired refresh-type     *)
(* token of an existing user whose hash is not in that user's list answers *)
(* 401, issues no token and leaves that user's list empty.                 *)
C2_UnknownTokenRevokesAll ==
    \A t \in IssuedRefresh :
       (verifyRefreshToken(t) /\ users[t.userId].exists
          /\ sha256(t) \notin Hashes(users[t.userId])) =>
          LET out == refreshToken(t, now)
          IN /\ out.status = 401
             /\ out.rt = NoToken
             /\ out.users[t.userId].refreshTokens = <<>>

(* a refresh ran into the revoke-all branch while the user had sessions    *)
C2_Witness ==
    /\ mark.kind = "purge"
    /\ users[issued[mark.a].userId].exists
    /\ users[issued[mark.a].userId].refreshTokens = <<>>

(* C3 as stated: after T was rotated into T' and T was refused on a second *)
(* presentation, a refresh presenting T' still succeeds.                   *)
C3_SuccessorStillRedeemable ==
    (mark.kind = "rotation" /\ mark.reused
       /\ verifyRefreshToken(RefreshTokenOf(mark.b))
       /\ users[issued[mark.b].userId].exists) =>
       refreshToken(RefreshTokenOf(mark.b), now).status = 200

(* C3 amended: after T was rotated into T' and T was refused on a second   *)
(* presentation, every later refresh presenting T' answers 401: the reuse  *)
(* of T revoked all sessions of the user, T' included.                     *)
C3_SuccessorRevokedByReuse ==
    (mark.kind = "rotation" /\ mark.reused) =>
       /\ refreshToken(RefreshTokenOf(mark.b), now).status = 401
       /\ ~IsStored(RefreshTokenOf(mark.b))

(* T was reused while its successor T' is unexpired and its user exists *)
C3_Witness ==
    /\ mark.kind = "rotation" /\ mark.reused
    /\ verifyRefreshToken(RefreshTokenOf(mark.b))
    /\ users[issued[mark.b].userId].exists

(* C6: after a changePassword answered 200 the user's list is empty and    *)
(* every refresh token issued to that user before the change is answered   *)
(* 401 by refresh; a changePassword answered 400/401/404 leaves the list   *)
(* and the password unchanged.                                             *)
C6_PasswordChangeRevokes ==
    /\ \A bearer \in BearerTokens \cup IssuedRefresh,
          currentPassword \in PasswordInputs, newPassword \in PasswordInputs :
          LET out == changePassword(bearer, currentPassword, newPassword)
          IN /\ out.status \in {200, 400, 401, 404}
             /\ out.status = 200 =>
                   /\ out.users[bearer.userId].refreshTokens = <<>>
                   /\ comparePassword(out.users[bearer.userId], newPassword)
             /\ out.status # 200 =>
                   \A u \in UserIds :
                      /\ out.users[u].refreshTokens = users[u].refreshTokens
                      /\ out.users[u].password = users[u].password
    /\ mark.kind = "changePassword" =>
          \A n \in 1..mark.b :
             issued[n].userId = mark.a =>
                /\ refreshToken(RefreshTokenOf(n), now).status = 401
                /\ ~IsStored(RefreshTokenOf(n))

(* the password was changed while an unexpired refresh token was out *)
C6_Witness ==
    /\ mark.kind = "changePassword"
    /\ users[mark.a].exists
    /\ \E n \in 1..mark.b :
          issued[n].userId = mark.a /\ verifyRefreshToken(RefreshTokenOf(n))

(* what logout does to the store: only the caller's entries with the hash  *)
(* of the token go                                                         *)
LogoutFrame ==
    \A bearer \in BearerTokens \cup IssuedRefresh, token \in BodyTokens :
       LET out == logout(bearer, token)
           caller == bearer.userId
       IN /\ out.status # 200 => out.users = users
          /\ (out.status = 200 /\ users[caller].exists) =>
                LET pre == users[caller].refreshTokens
                    post == out.users[caller].refreshTokens
                    kept == {i \in 1..Len(pre) : pre[i].tokenHash # sha256(token)}
                IN /\ \A u \in UserIds \ {caller} : out.users[u] = users[u]
                   /\ Len(post) = Cardinality(kept)
                   /\ \A i \in kept : \E j \in 1..Len(post) : post[j] = pre[i]
                   /\ \A j \in 1..Len(post) : post[j].tokenHash # sha256(token)
                   /\ [out.users[caller] EXCEPT !.refreshTokens = pre] = users[caller]

(* C7 as stated: logout with refresh token T removes from the caller's     *)
(* list exactly the entry with T's hash and changes nothing else;          *)
(* afterwards a refresh presenting T answers 401.                          *)
C7_LogoutRevokesAnyToken ==
    /\ LogoutFrame
    /\ mark.kind = "logout" => refreshToken(RefreshTokenOf(mark.b), now).status = 401

(* C7 amended: logout with refresh token T removes from the caller's list  *)
(* exactly the entry with T's hash and changes nothing else; when T was    *)
(* issued to the caller, every later refresh presenting T answers 401.     *)
C7_LogoutRevokesOwnToken ==
    /\ LogoutFrame
    /\ (mark.kind = "logout" /\ issued[mark.b].userId = mark.a) =>
          refreshToken(RefreshTokenOf(mark.b), now).status = 401

(* a caller logged out with an own, unexpired token and kept another session *)
C7_Witness ==
    /\ mark.kind = "logout"
    /\ issued[mark.b].userId = mark.a
    /\ verifyRefreshToken(RefreshTokenOf(mark.b))
    /\ users[mark.a].exists
    /\ users[mark.a].refreshTokens # <<>>

(* C8: access and refresh tokens cannot stand in for each other: every     *)
(* token made by generateRefreshToken is rejected by verifyAccessToken, so *)
(* authenticate answers 401 without calling next; every token made by      *)
(* generateAccessToken is rejected by verifyRefreshToken, so the refresh   *)
(* endpoint answers 401 and changes no stored state.                       *)
C8_NoCrossTypeUse ==
    \A userId \in UserIds, email \in {"a@x.com", "b@x.com"}, iat \in 1..(MaxTokens + 1) :
       /\ \A jti \in 1..(MaxTokens + 1) :
             LET t == generateRefreshToken(userId, email, iat, jti)
             IN ~verifyAccessToken(t) /\ ~authenticate(t)
       /\ LET t == generateAccessToken(userId, email, iat)
              out == refreshToken(t, now)
          IN /\ ~verifyRefreshToken(t)
             /\ out.status = 401
             /\ out.rt = NoToken
             /\ out.users = users

(* both secrets are the same and an unexpired pair of an existing user is  *)
(* out: only the type discriminator tells its two tokens apart             *)
C8_Witness ==
    /\ env.JWT_SECRET = env.JWT_REFRESH_SECRET
    /\ \E n \in 1..Len(issued) :
          /\ jwtVerify(RefreshTokenOf(n), env.JWT_SECRET)
          /\ jwtVerify(AccessTokenOf(n), env.JWT_REFRESH_SECRET)
          /\ IsStored(RefreshTokenOf(n))

(* the entry that storing newEntry on a full list pre dropped, read off    *)
(* the list post that was saved                                            *)
DroppedBy(pre, newEntry, post) ==
    {e \in {pre[i] : i \in 1..Len(pre)} \cup {newEntry} :
        \A j \in 1..Len(post) : post[j] # e}

(* C5: with register, login, refresh and logout handled one at a time,     *)
(* every user's list holds at most MAX_SESSIONS (5) entries; a store that  *)
(* would make it 6 evicts exactly one entry, one whose creation time is    *)
(* the oldest.                                                             *)
C5_SessionCap ==
    /\ \A u \in UserIds : Len(users[u].refreshTokens) <= MAX_SESSIONS
    /\ \A email \in EmailInputs, password \in PasswordInputs, date \in ClockValues :
          LET out == login(email, password, date)
          IN out.status = 200 =>
                LET id == out.rt.userId
                    pre == users[id].refreshTokens
                    post == out.users[id].refreshTokens
                    newEntry == [tokenHash |-> sha256(out.rt), createdAt |-> date]
                    dropped == DroppedBy(pre, newEntry, post)
                IN /\ Len(post) <= MAX_SESSIONS
                   /\ Len(pre) < MAX_SESSIONS => post = Append(pre, newEntry)
                   /\ Len(pre) = MAX_SESSIONS =>
                         /\ Len(post) = MAX_SESSIONS
                         /\ Cardinality(dropped) = 1
                         /\ \A d \in dropped :
                               /\ \A i \in 1..Len(pre) : d.createdAt <= pre[i].createdAt
                               /\ d.createdAt <= newEntry.createdAt
    /\ \A t \in IssuedRefresh, date \in ClockValues :
          LET out == refreshToken(t, date)
          IN out.status = 200 =>
                Len(out.users[t.userId].refreshTokens) <= MAX_SESSIONS

(* a sixth session was stored and an entry evicted *)
C5_Witness ==
    /\ mark.kind = "evict"
    /\ Len(users[mark.a].refreshTokens) = MAX_SESSIONS

(* C4: refresh tokens are single-use under every interleaving: of the      *)
(* refresh requests that presented one token T, at most one answers 200.   *)
C4_SingleUseUnderConcurrency ==
    \A r1, r2 \in Requests :
       (/\ r1 # r2
        /\ inflight[r1].pc = "done" /\ inflight[r1].status = 200
        /\ inflight[r2].pc = "done" /\ inflight[r2].status = 200)
          => inflight[r1].token # inflight[r2].token
SameSlot(b1, b2) ==
    b1.userId = b2.userId /\ b1.category = b2.category /\ b1.period = b2.period

(* C9: with budget requests executed one at a time, each user has at most  *)
(* one budget for each (category, period) pair.                            *)
C9_OneBudgetPerCategoryPeriod ==
    \A b1, b2 \in budgets : SameSlot(b1, b2) => b1 = b2

HasDuplicate(bearer, category, hasPeriod, period) ==
    \E b \in budgets : /\ b.userId = bearer.userId
                       /\ b.category = category
                       /\ b.period = periodOrDefault(hasPeriod, period)

ValidBudgetBody(category, hasLimit, limit, hasPeriod, period) ==
    /\ category # ""
    /\ hasLimit /\ limit > 0
    /\ (hasPeriod /\ period # "") => period \in Periods

OwnedBy(docs, userId) == {doc \in docs : doc.userId = userId}

(* C11: after a deleteAccount answered 200 the store holds no user         *)
(* document, transaction, budget or custom category of that user, and no   *)
(* refresh token of that user is redeemed any more; the documents of every *)
(* other user and the default categories are unchanged.                    *)
C11_DeleteAccountCascades ==
    /\ \A bearer \in BearerTokens :
          LET out == deleteAccountCascade(bearer)
              id == bearer.userId
          IN /\ out.status = 200 =>
                  /\ ~out.users[id].exists
                  /\ OwnedBy(out.transactions, id) = {}
                  /\ OwnedBy(out.budgets, id) = {}
                  /\ OwnedBy(out.categories, id) = {}
                  /\ \A u \in UserIds \ {id} :
                        /\ out.users[u] = users[u]
                        /\ OwnedBy(out.transactions, u) = OwnedBy(transactions, u)
                        /\ OwnedBy(out.budgets, u) = OwnedBy(budgets, u)
                        /\ OwnedBy(out.categories, u) = OwnedBy(categories, u)
                  /\ Defaults(out.categories) = Defaults(categories)
             /\ out.status # 200 =>
                  /\ out.users = users /\ out.transactions = transactions
                  /\ out.budgets = budgets /\ out.categories = categories
    /\ mark.kind = "deleteAccount" =>
          /\ ~users[mark.a].exists
          /\ \A n \in 1..Len(issued) :
                issued[n].userId = mark.a =>
                   refreshToken(RefreshTokenOf(n), now).status = 401

(* an account that owned a budget, a transaction and a category was        *)
(* deleted while another account is signed in and the defaults exist       *)
C11_Witness ==
    /\ mark.kind = "deleteAccount"
    /\ Seeded
    /\ \E u \in UserIds \ {mark.a} : users[u].exists /\ users[u].refreshTokens # <<>>
    /\ nextBid - 1 > Cardinality(budgets)
    /\ nextTid - 1 > Cardinality(transactions)
    /\ nextCid - 1 > Cardinality(categories)
    /\ \E n \in 1..Len(issued) :
          issued[n].userId = mark.a /\ verifyRefreshToken(RefreshTokenOf(n))

(* the thirteen default documents as seedCategories writes them to an      *)
(* empty collection                                                        *)
SeededDefaults == seedCategories({}, 1).categories

(* C12: default categories are immutable and undeletable. After seeding,   *)
(* for every authenticated caller an update or a delete naming the id of a *)
(* default category answers 404 and leaves the collection as it was, and   *)
(* in every state reached by category create/update/delete and             *)
(* deleteAccount requests the default categories are the seeded ones,      *)
(* field for field.                                                        *)
C12_DefaultsImmutable ==
    Seeded =>
      /\ Defaults(categories) = SeededDefaults
      /\ \A bearer \in BearerTokens, d \in Defaults(categories) :
            authenticate(bearer) =>
              /\ \A body \in UpdateCategoryBodies :
                    updateCategory(bearer, d._id, body.name, body.icon, body.color)
                       = CategoryOut(404, categories)
              /\ deleteCategory(bearer, d._id) = CategoryOut(404, categories)
              /\ Defaults(deleteAccountCascade(bearer).categories) = SeededDefaults

(* a signed-in user owns a category, another category was deleted, and an  *)
(* account was deleted, with the defaults in the store                     *)
C12_Witness ==
    /\ Seeded
    /\ \E bearer \in IssuedAccess :
          /\ authenticate(bearer)
          /\ users[bearer.userId].exists
          /\ OwnedBy(categories, bearer.userId) # {}
    /\ nextCid - 1 > Cardinality(categories)
    /\ \E u \in UserIds : ~users[u].exists /\ nextUid > u

(* the categories a name of userId's must differ from: its own and the     *)
(* defaults                                                                *)
NameTaken(name, userId, exceptId) ==
    \E c \in categories :
        /\ toLowerCase(c.name) = castName(name)
        /\ c._id # exceptId
        /\ (c.userId = userId \/ c.isDefault)

(* C13: after seeding, in every state reached by createCategory and        *)
(* updateCategory requests no user owns two categories with the same       *)
(* lowercased name and no user-owned category has the name of a default    *)
(* category; an otherwise valid create, or a rename of an own category,    *)
(* whose name is taken by another category of the caller or by a default   *)
(* answers 409, and no request with such a name changes the collection.    *)
C13_NamesUniquePerOwner ==
    Seeded =>
      /\ \A c1, c2 \in categories \ Defaults(categories) :
            c1.userId = c2.userId /\ toLowerCase(c1.name) = toLowerCase(c2.name) => c1 = c2
      /\ \A c \in categories \ Defaults(categories), d \in Defaults(categories) :
            toLowerCase(c.name) # toLowerCase(d.name)
      /\ \A bearer \in CategoryCallers :
            authenticate(bearer) =>
              /\ \A body \in CreateCategoryBodies :
                    LET out == createCategory(bearer, body.name, body.type, body.icon,
                                              body.color)
                    IN body.name # "" /\ NameTaken(body.name, bearer.userId, MalformedId) =>
                          /\ out.categories = categories
                          /\ out.status \in {400, 409}
                          /\ body.type \in CategoryTypes /\ isHexColor(body.color) =>
                                out.status = 409
              /\ \A body \in UpdateCategoryBodies, c \in OwnedBy(categories, bearer.userId) :
                    LET out == updateCategory(bearer, c._id, body.name, body.icon, body.color)
                    IN body.name # "" /\ NameTaken(body.name, bearer.userId, c._id) =>
                          /\ out.categories = categories
                          /\ out.status \in {400, 409}
                          /\ body.color = "" \/ isHexColor(body.color) => out.status = 409

(* a user owns two categories, so that a rename of one to the name of the  *)
(* other or to a default name, and a create of a taken name, are refused   *)
C13_Witness ==
    /\ Seeded
    /\ \E bearer \in IssuedAccess :
          /\ authenticate(bearer)
          /\ Cardinality(OwnedBy(categories, bearer.userId)) >= 2
          /\ \E c \in OwnedBy(categories, bearer.userId) :
                /\ updateCategory(bearer, c._id, "Pets", "", "").status = 409
                /\ updateCategory(bearer, c._id, "Salary", "", "").status = 409
          /\ createCategory(bearer, " Pets ", "expense", "paw", "#FF5733").status = 409

Range(list) == {list[i] : i \in 1..Len(list)}

(* what C15 says the spent figure of a budget is on the day today *)
SpentOf(userId, category, period, today) ==
    sumAmount({t \in transactions :
                  /\ t.userId = userId
                  /\ t.category = category
                  /\ t.type = "expense"
                  /\ dateGte(t.date, getPeriodStart(period, today))})

(* C15: in every state reached by transaction create, update and delete    *)
(* requests, on every day, the spent figure that getBudgets, the status    *)
(* overview, getBudget and the answer of updateBudget report for a budget  *)
(* is the sum of the amounts of the owner's transactions of the budget's   *)
(* category with type 'expense' and date >= periodStart(period), 0 when    *)
(* there are none; each list has one entry per budget of the caller.       *)
C15_SpentIsSumOfPeriodExpenses ==
    \A bearer \in IssuedAccess, today \in ReportDays :
        LET own == OwnedBy(budgets, bearer.userId)
            all == getBudgets(bearer, "", today)
            overview == getBudgetStatus(bearer, today)
        IN /\ all.status = 200 /\ overview.status = 200
           /\ Len(all.data) = Cardinality(own) /\ Len(overview.data) = Cardinality(own)
           /\ {e._id : e \in Range(all.data)} = {b._id : b \in own}
           /\ \A e \in Range(all.data) :
                 e.spent = SpentOf(bearer.userId, e.category, e.period, today)
           /\ \A e \in Range(overview.data) :
                 /\ \E b \in own : b.category = e.category /\ b.period = e.period
                                   /\ b.limit = e.limit
                 /\ e.spent = SpentOf(bearer.userId, e.category, e.period, today)
           /\ \A b \in own :
                 /\ \E e \in Range(overview.data) :
                       e.category = b.category /\ e.period = b.period /\ e.limit = b.limit
                 /\ getBudget(bearer, b._id, today).status = 200
                 /\ getBudget(bearer, b._id, today).data[1].spent
                       = SpentOf(bearer.userId, b.category, b.period, today)
                 /\ \A body \in UpdateBudgetBodies :
                       LET out == updateBudgetData(bearer, b._id, body[1], body[2], body[3],
                                                   body[4], today)
                       IN out.status = 200 =>
                             out.data[1].spent = SpentOf(bearer.userId, b.category,
                                                         out.data[1].period, today)

(* a budget whose spent figure counts one transaction of its owner and     *)
(* leaves out another of the same owner, after a transaction was deleted   *)
C15_Witness ==
    \E b \in budgets, today \in ReportDays :
        /\ SpentOf(b.userId, b.category, b.period, today) > 0
        /\ \E t \in OwnedBy(transactions, b.userId) :
              ~(t.type = "expense" /\ t.category = b.category
                /\ dateGte(t.date, getPeriodStart(b.period, today)))
        /\ nextTid - 1 > Cardinality(transactions)

(* C14: for every budget of the status overview, with spent and limit the  *)
(* figures reported: status is 'over' exactly when spent > limit,          *)
(* 'warning' exactly when 0.8 * limit < spent <= limit, and 'ok'           *)
(* otherwise; isOverBudget is true exactly when status is 'over'.          *)
C14_StatusClassification ==
    \A bearer \in IssuedAccess, today \in ReportDays :
        \A e \in Range(getBudgetStatus(bearer, today).data) :
            /\ e.status \in {"over", "warning", "ok"}
            /\ e.status = "over" <=> e.spent > e.limit
            /\ e.status = "warning" <=> (8 * e.limit < 10 * e.spent /\ e.spent <= e.limit)
            /\ e.isOverBudget <=> e.status = "over"

(* an overview with a budget spent exactly to its limit, which is          *)
(* 'warning', next to one that is 'ok'                                     *)
C14_Witness ==
    \E bearer \in IssuedAccess, today \in ReportDays :
        \E e1, e2 \in Range(getBudgetStatus(bearer, today).data) :
            /\ e1.status = "warning" /\ e1.spent = e1.limit
            /\ e2.status = "ok"

(* remaining and percentageUsed of a decorated budget, as C17 states them; *)
(* the quotient is compared exactly, by cross-multiplication               *)
Decorated(e) ==
    /\ e.limit > 0
    /\ e.remaining = e.limit - e.spent
    /\ e.percentageUsed[2] > 0
    /\ e.percentageUsed[1] * e.limit = 100 * e.spent * e.percentageUsed[2]

(* C17: every decorated budget returned by getBudgets, getBudget,          *)
(* updateBudget and the status overview has remaining = limit - spent and  *)
(* percentageUsed = 100 * spent / limit for the limit (> 0) and the spent  *)
(* it reports; neither figure is clamped.                                  *)
C17_RemainingAndPercentage ==
    \A bearer \in IssuedAccess, today \in ReportDays :
        /\ \A period \in {"", "monthly", "yearly"} :
              \A e \in Range(getBudgets(bearer, period, today).data) : Decorated(e)
        /\ \A e \in Range(getBudgetStatus(bearer, today).data) : Decorated(e)
        /\ \A id \in IdInputs :
              /\ \A e \in Range(getBudget(bearer, id, today).data) : Decorated(e)
              /\ \A body \in UpdateBudgetBodies :
                    \A e \in Range(updateBudgetData(bearer, id, body[1], body[2], body[3],
                                                    body[4], today).data) : Decorated(e)

(* a budget spent beyond its limit: remaining is negative and              *)
(* percentageUsed exceeds 100 in the list, in the overview and alone       *)
C17_Witness ==
    \E bearer \in IssuedAccess, today \in ReportDays :
        /\ \E e \in Range(getBudgets(bearer, "", today).data) :
              /\ e.remaining < 0
              /\ e.percentageUsed[1] > 100 * e.percentageUsed[2]
              /\ getBudget(bearer, e._id, today).data[1].remaining < 0
        /\ \E e \in Range(getBudgetStatus(bearer, today).data) : e.remaining < 0

(* what C18 says actual is: the caller's expenses of the category dated in *)
(* the range asked for                                                     *)
ActualOf(userId, category, startDate, endDate) ==
    sumAmount({t \in transactions :
                  /\ t.userId = userId
                  /\ t.category = category
                  /\ t.type = "expense"
                  /\ startDate = NoDate \/ dateGte(t.date, startDate)
                  /\ endDate = NoDate \/ dateGte(endDate, t.date)})

ValidRanges == {range \in DateRanges : isValidDate(range[1]) /\ isValidDate(range[2])}

(* one entry per budget of the caller, with actual the sum over the range  *)
(* and variance = budgeted - actual                                        *)
EntriesPerBudget(bearer, range) ==
    LET out == getBudgetVsActual(bearer, range[1], range[2])
        own == OwnedBy(budgets, bearer.userId)
    IN /\ out.status = 200
       /\ Len(out.data) = Cardinality(own)
       /\ \A b \in own : \E e \in Range(out.data) :
             e.category = b.category /\ e.period = b.period /\ e.budgeted = b.limit
       /\ \A e \in Range(out.data) :
             /\ \E b \in own :
                   e.category = b.category /\ e.period = b.period /\ e.budgeted = b.limit
             /\ e.actual = ActualOf(bearer.userId, e.category, range[1], range[2])
             /\ e.variance = e.budgeted - e.actual

(* C18 as stated: budget-vs-actual returns one entry per budget of the     *)
(* caller, actual is the sum of the caller's expenses of the category in   *)
(* the range, variance = budgeted - actual, and variancePercent is         *)
(* 100 * variance / budgeted (here in hundredths of a percent).            *)
C18_VariancePercentExact ==
    \A bearer \in IssuedAccess, range \in ValidRanges :
        /\ EntriesPerBudget(bearer, range)
        /\ \A e \in Range(getBudgetVsActual(bearer, range[1], range[2]).data) :
              e.variancePercent * e.budgeted = 100 * 100 * e.variance

(* C18 amended: as above, but variancePercent is 100 * variance / budgeted *)
(* rounded to two decimals, a half rounded up; and a startDate or endDate  *)
(* that is not a date answers 400.                                         *)
C18_VariancePercentRounded ==
    \A bearer \in IssuedAccess :
        /\ \A range \in ValidRanges :
              /\ EntriesPerBudget(bearer, range)
              /\ \A e \in Range(getBudgetVsActual(bearer, range[1], range[2]).data) :
                    /\ e.budgeted > 0
                    /\ 2 * e.variancePercent * e.budgeted - e.budgeted
                          <= 2 * 100 * 100 * e.variance
                    /\ 2 * 100 * 100 * e.variance
                          < 2 * e.variancePercent * e.budgeted + e.budgeted
        /\ \A range \in DateRanges \ ValidRanges :
              getBudgetVsActual(bearer, range[1], range[2]).status = 400

(* a budget of 300 against 200 spent in the range asked for, which leaves  *)
(* out an expense of the category; without a range the actual counts an    *)
(* expense dated before the budget's period began                          *)
C18_Witness ==
    \E bearer \in IssuedAccess, range \in ValidRanges :
        /\ range[1] # NoDate
        /\ \E e \in Range(getBudgetVsActual(bearer, range[1], range[2]).data) :
              /\ e.variancePercent * e.budgeted # 100 * 100 * e.variance
              /\ e.actual < ActualOf(bearer.userId, e.category, NoDate, NoDate)
              /\ \A today \in ReportDays :
                    ActualOf(bearer.userId, e.category, NoDate, NoDate)
                       > SpentOf(bearer.userId, e.category, e.period, today)

(* no two accounts have the same email, compared without case *)
EmailsUnique(us) ==
    \A u1, u2 \in UserIds :
        (us[u1].exists /\ us[u2].exists /\ toLowerCase(us[u1].email) = toLowerCase(us[u2].email))
          => u1 = u2

Registered(email) == \E u \in UserIds : users[u].exists /\ users[u].email = toLowerCase(email)

(* C16 as stated: a register request with a password shorter than 8        *)
(* characters answers 400; a register request whose email, compared        *)
(* without case, is already registered answers 409; in both cases no user  *)
(* is created; after any register and updateProfile requests no two users  *)
(* have the same lowercased email.                                         *)
C16_DuplicateEmailAnswers409 ==
    /\ EmailsUnique(users)
    /\ \A email \in ProfileEmails, password \in ProfilePasswords \cup {""},
          firstName \in ProfileNames :
          LET out == register(email, password, firstName, "User", now)
          IN /\ Len(password) < MinPasswordLength =>
                   out.status = 400 /\ out.users = users
             /\ (email # "" /\ Registered(email)) =>
                   out.status = 409 /\ out.users = users

(* C16 amended: a register request with a password shorter than 8         *)
(* characters answers 400; one that passes validation (all fields present, *)
(* names of 1-50 characters after trimming, password of 8 or more, a valid *)
(* email) and whose email, compared without case, is already registered    *)
(* answers 409, and one that fails validation answers 400 whether or not   *)
(* the email is registered; in all these cases no user is created. An      *)
(* updateProfile naming an email another account has answers 409 and       *)
(* changes nothing. After any register and updateProfile requests no two   *)
(* users have the same lowercased email.                                   *)
C16_EmailsUnique ==
    /\ EmailsUnique(users)
    /\ \A email \in ProfileEmails, password \in ProfilePasswords \cup {""},
          firstName \in ProfileNames :
          LET out == register(email, password, firstName, "User", now)
              valid == /\ trim(firstName) # ""
                       /\ Len(password) >= MinPasswordLength
                       /\ isEmail(email)
          IN /\ Len(password) < MinPasswordLength =>
                   out.status = 400 /\ out.users = users
             /\ (email # "" /\ Registered(email)) =>
                   /\ out.users = users
                   /\ out.status = IF valid THEN 409 ELSE 400
             /\ nextUid <= MaxUsers => EmailsUnique(out.users)
    /\ \A bearer \in IssuedAccess, email \in ProfileEmails, firstName \in ProfileNames :
          LET out == updateProfile(bearer, firstName, "", email)
          IN /\ EmailsUnique(out.users)
             /\ (/\ out.status \notin {401, 404}
                 /\ \E u \in UserIds \ {bearer.userId} :
                       users[u].exists /\ users[u].email = toLowerCase(email)) =>
                   out.status = 409 /\ out.users = users

(* two accounts, one of which changed its email, while a register and an   *)
(* updateProfile naming the other's email in capitals are refused with 409 *)
C16_Witness ==
    /\ \E u \in UserIds : users[u].exists /\ users[u].email = "c@x.com"
    /\ Registered("A@x.com")
    /\ register("A@x.com", "password123", "Test", "User", now).status = 409
    /\ register("A@x.com", "short", "Test", "User", now).status = 400
    /\ \E bearer \in IssuedAccess :
          /\ users[bearer.userId].email = "c@x.com"
          /\ updateProfile(bearer, "", "", "A@x.com").status = 409

(* the categories of a set that a type given in the query lets through *)
OfType(cats, type) == {c \in cats : type \in CategoryTypes => c.type = type}

(* C19: the category listing depends only on the caller's own identity.    *)
(* Without a Bearer token it returns exactly the default categories; with  *)
(* a Bearer token that verifies, exactly the default categories and those  *)
(* the caller owns, never one owned by another user; with a Bearer token   *)
(* that fails verification (forged, expired, or a refresh token) it        *)
(* answers 401. A type of income or expense in the query keeps the         *)
(* categories of that type.                                                *)
C19_ListingDependsOnCaller ==
    Seeded =>
      \A bearer \in BodyTokens, type \in {"", "income", "expense", "other"} :
          LET out == getCategories(bearer, type)
          IN IF bearer = NoToken
             THEN out.status = 200 /\ out.data = OfType(Defaults(categories), type)
             ELSE IF verifyAccessToken(bearer)
             THEN /\ out.status = 200
                  /\ out.data = OfType(Defaults(categories)
                                         \cup OwnedBy(categories, bearer.userId), type)
                  /\ \A c \in out.data : c.userId \in {NoOwner, bearer.userId}
             ELSE out.status = 401 /\ out.data = {}

(* a signed-in caller that owns a category was served the listing while    *)
(* another user owns a category too, and an expired token is refused       *)
C19_Witness ==
    /\ mark.kind = "getCategories" /\ mark.b = 200 /\ mark.a # NoOwner
    /\ OwnedBy(categories, mark.a) # {}
    /\ \E c \in categories : c.userId \notin {NoOwner, mark.a}
    /\ \E bearer \in IssuedAccess : getCategories(bearer, "").status = 401

(* no instance is inside seedCategories, and one has run *)
SeedingOver ==
    /\ \A k \in Instances : seeding.run[k].pc \in {"idle", "done", "failed"}
    /\ \E k \in Instances : seeding.run[k].pc # "idle"

(* C20: category seeding is idempotent. After seedCategories has run any   *)
(* number of times, one run after the other or several at once from        *)
(* several instances, the store holds exactly one default category for     *)
(* each default name, 13 in all, each as it was first written.             *)
C20_SeedingIdempotent ==
    /\ \A c1, c2 \in Defaults(categories) : c1.name = c2.name => c1 = c2
    /\ SeedingOver =>
          /\ Cardinality(Defaults(categories)) = Len(DEFAULT_CATEGORIES)
          /\ \A i \in 1..Len(DEFAULT_CATEGORIES) :
                \E c \in Defaults(categories) : c = DefaultDoc(DEFAULT_CATEGORIES[i], c._id)
(* C21: a getBudget, updateBudget or deleteBudget request of a signed-in   *)
(* user that names the id of a budget of another user answers 404 and      *)
(* leaves the Budget collection as it is; getBudgets and the status        *)
(* overview of a user hold one entry per budget of that user, none of      *)
(* another user, and the spent of an entry is never more than the          *)
(* caller's own expenses of that category.                                 *)
C21_BudgetsAreUserSpecific ==
    \A bearer \in IssuedAccess, today \in ReportDays :
        LET own == OwnedBy(budgets, bearer.userId)
            ownExpenses(category) ==
                sumAmount({t \in OwnedBy(transactions, bearer.userId) :
                              t.category = category /\ t.type = "expense"})
        IN /\ \A b \in budgets \ own :
                 /\ getBudget(bearer, b._id, today).status = 404
                 /\ deleteBudget(bearer, b._id) = BudgetOut(404, budgets)
                 /\ \A body \in UpdateBudgetBodies :
                       updateBudget(bearer, b._id, body[1], body[2], body[3], body[4])
                          = BudgetOut(404, budgets)
           /\ \A period \in {"", "monthly", "yearly"} :
                 \A e \in Range(getBudgets(bearer, period, today).data) :
                     /\ e.userId = bearer.userId
                     /\ \E b \in own : b._id = e._id
                     /\ e.spent <= ownExpenses(e.category)
           /\ Len(getBudgetStatus(bearer, today).data) = Cardinality(own)
           /\ \A e \in Range(getBudgetStatus(bearer, today).data) :
                 /\ \E b \in own : /\ b.category = e.category /\ b.period = e.period
                                   /\ b.limit = e.limit
                 /\ e.spent <= ownExpenses(e.category)

(* two users have a budget of the same category and period each, the       *)
(* second user has spent in that category this month and the first has     *)
(* not: the first user's overview reports nothing spent                    *)
C21_Witness ==
    \E a, b \in IssuedAccess :
        /\ a.userId # b.userId
        /\ \E x \in OwnedBy(budgets, a.userId), y \in OwnedBy(budgets, b.userId) :
              /\ x.category = y.category /\ x.period = y.period
              /\ SpentOf(b.userId, y.category, y.period, Day(2026, 1, 15)) > 0
              /\ getBudgetStatus(a, Day(2026, 1, 15)).data[1].spent = 0
              /\ getBudget(a, y._id, Day(2026, 1, 15)).status = 404

(* C22: a createBudget request that found no budget of its user, category *)
(* and period inserts its document and answers 201 when it resumes,        *)
(* whatever other requests inserted in between: the existence check is not *)
(* atomic with the insert, and two concurrent requests of one user for the *)
(* same category and period both insert and both answer 201.               *)
C22_InsertIgnoresLaterInserts ==
    [][\A r \in Requests :
          (inflight[r].pc = "budgetSave" /\ inflight'[r].pc = "done") =>
             /\ inflight'[r].status = 201
             /\ Cardinality(budgets') = Cardinality(budgets) + 1
             /\ \E b \in budgets' \ budgets :
                   /\ b.userId = inflight[r].doc.userId
                   /\ b.category = inflight[r].doc.category
                   /\ b.period = inflight[r].doc.period]_vars

(* two requests of one user answered 201 and the store holds two budgets   *)
(* of that user for one category and period                                *)
C22_Witness ==
    \E r1, r2 \in Requests :
        /\ r1 # r2
        /\ inflight[r1].pc = "done" /\ inflight[r1].status = 201
        /\ inflight[r2].pc = "done" /\ inflight[r2].status = 201
        /\ inflight[r1].token.userId = inflight[r2].token.userId
        /\ \E b1, b2 \in budgets :
              /\ b1._id # b2._id
              /\ b1.userId = inflight[r1].token.userId
              /\ SameSlot(b1, b2)

(* C23: for every set of budgets and every user, getSpentByCategory issues *)
(* one aggregate per distinct period of the budgets, at most 2, and for    *)
(* every budget b given the figure it yields for (b.category, b.period),   *)
(* 0 when the key is absent, is calculateSpentAmount of that user,         *)
(* category and period on the same transactions and day.                   *)
C23_BatchEqualsPerBudget ==
    \A bs \in SUBSET budgets, userId \in UserIds, today \in ReportDays :
        /\ Cardinality(spentPeriods(bs)) <= 2
        /\ Cardinality(spentPeriods(bs)) <= Cardinality(bs)
        /\ \A b \in bs :
              getOrZero(getSpentByCategory(userId, bs, today),
                        budgetSpentKey(b.category, b.period))
                 = calculateSpentAmount(userId, b.category, b.period, today)
        /\ \A key \in DOMAIN getSpentByCategory(userId, bs, today) :
              \E b \in bs : key = budgetSpentKey(b.category, b.period)

(* a user has a monthly and a yearly budget of one category and an expense *)
(* of January, asked about in February: two aggregates, and the two        *)
(* figures differ                                                          *)
C23_Witness ==
    \E b1, b2 \in budgets :
        LET today == Day(2026, 1, 15)
            map == getSpentByCategory(b1.userId, {b1, b2}, today)
        IN /\ b1.userId = b2.userId /\ b1.category = b2.category
           /\ b1.period = "monthly" /\ b2.period = "yearly"
           /\ Cardinality(spentPeriods({b1, b2})) = 2
           /\ getOrZero(map, budgetSpentKey(b2.category, "yearly"))
                 > getOrZero(map, budgetSpentKey(b1.category, "monthly"))

(* the entries of a list are the budgets given, one entry for each *)
OneEntryPerBudget(list, own) ==
    /\ Len(list) = Cardinality(own)
    /\ \E budgetOf \in [1..Len(list) -> own] :
          /\ \A i, j \in 1..Len(list) : i # j => budgetOf[i] # budgetOf[j]
          /\ \A i \in 1..Len(list) :
                /\ list[i].category = budgetOf[i].category
                /\ list[i].period = budgetOf[i].period
                /\ list[i].limit = budgetOf[i].limit

(* C24: in every status overview no 'ok' entry precedes an 'over' or a     *)
(* 'warning' entry and no 'warning' entry precedes an 'over' entry, and    *)
(* the list holds exactly one entry for each budget of the caller.         *)
C24_OverviewOrdered ==
    \A bearer \in IssuedAccess, today \in ReportDays :
        LET list == getBudgetStatus(bearer, today).data
        IN /\ OneEntryPerBudget(list, OwnedBy(budgets, bearer.userId))
           /\ \A i, j \in 1..Len(list) :
                 i < j => /\ ~(list[i].status = "ok"
                              /\ list[j].status \in {"over", "warning"})
                          /\ ~(list[i].status = "warning" /\ list[j].status = "over")

(* the budget created first is 'ok' and the one created second is          *)
(* 'warning': the overview lists the second before the first               *)
C24_Witness ==
    \E bearer \in IssuedAccess, today \in ReportDays :
        LET list == getBudgetStatus(bearer, today).data
            stored == naturalOrder(OwnedBy(budgets, bearer.userId))
        IN /\ Len(list) = 2
           /\ list[1].status = "warning" /\ list[2].status = "ok"
           /\ list[1].category = stored[2].category /\ list[1].period = stored[2].period
           /\ list[2].category = stored[1].category /\ list[2].period = stored[1].period
           /\ <<stored[1].category, stored[1].period>>
                 # <<stored[2].category, stored[2].period>>

(* C25: in every status overview isNearBudget is true exactly when spent   *)
(* is at or above 80% of the limit, spent = 80% of the limit included.     *)
C25_NearAtEightyPercent ==
    \A bearer \in IssuedAccess, today \in ReportDays :
        \A e \in Range(getBudgetStatus(bearer, today).data) :
            e.isNearBudget <=> 10 * e.spent >= 8 * e.limit

Rejected(status) == status \in {400, 409}

(* C26: every updateBudget, updateProfile, updateCategory, createBudget or *)
(* createCategory request answered 400 or 409 leaves the collection it     *)
(* writes as it was, also when a field of the body that is checked earlier *)
(* was valid.                                                              *)
C26_RejectedLeavesStore ==
    \A bearer \in ValCallers :
        /\ \A body \in ValCreateBudgetBodies :
              LET out == createBudget(bearer, body[1], body[2], body[3], body[4], body[5])
              IN Rejected(out.status) => out.budgets = budgets
        /\ \A id \in IdInputs, body \in ValUpdateBudgetBodies :
              LET out == updateBudget(bearer, id, body[1], body[2], body[3], body[4])
              IN Rejected(out.status) => out.budgets = budgets
        /\ \A body \in ValProfileBodies :
              LET out == updateProfile(bearer, body[1], body[2], body[3])
              IN Rejected(out.status) => out.users = users
        /\ \A body \in ValCreateCategoryBodies :
              LET out == createCategory(bearer, body.name, body.type, body.icon, body.color)
              IN Rejected(out.status) => out.categories = categories
        /\ \A id \in CategoryIds, body \in ValUpdateCategoryBodies :
              LET out == updateCategory(bearer, id, body.name, body.icon, body.color)
              IN Rejected(out.status) => out.categories = categories

(* a user with a budget and a category of their own, for whom a new limit  *)
(* with a period that does not exist is answered 400, a new colour with    *)
(* the name of a default category 409, a new email with a blank first name *)
(* 400, and a second budget or category of the same key 409                *)
C26_Witness ==
    \E bearer \in IssuedAccess :
        /\ \E b \in OwnedBy(budgets, bearer.userId) :
              /\ b.limit # 300
              /\ updateBudget(bearer, b._id, TRUE, 300, TRUE, "weekly").status = 400
              /\ createBudget(bearer, b.category, TRUE, 100, FALSE, "").status = 409
        /\ \E c \in OwnedBy(categories, bearer.userId) :
              /\ c.color # "#00ff00"
              /\ updateCategory(bearer, c._id, "Salary", "dog", "#00ff00").status = 409
              /\ createCategory(bearer, "Pets", "expense", "paw", "#FF5733").status = 409
        /\ users[bearer.userId].email # "c@x.com"
        /\ updateProfile(bearer, "  ", "", "c@x.com").status = 400
        /\ updateProfile(bearer, "New", "", "b@x.com").status = 409

(* the refresh token of an answer is stored for its user in the store the *)
(* request leaves                                                          *)
StoredWhenAnswered(out) ==
    (out.status \in {200, 201} /\ out.rt # NoToken /\ out.users[out.rt.userId].exists) =>
        verifyStoredRefreshToken(out.users, out.rt.userId, out.rt)

(* C27: whenever register, login or refresh answers 200 or 201 with a      *)
(* refresh token for an existing user, the hash of that token is in the    *)
(* user's stored list when the answer is sent, also when the list is at    *)
(* the session cap and its entries have the creation time of the new one.  *)
C27_IssuedTokenIsStored ==
    \A date \in ClockValues :
        /\ \A email \in EmailInputs, password \in PasswordInputs :
              /\ StoredWhenAnswered(login(email, password, date))
              /\ nextUid <= MaxUsers =>
                    StoredWhenAnswered(register(email, password, "Test", "User", date))
        /\ \A t \in IssuedRefresh : StoredWhenAnswered(refreshToken(t, date))

(* C28: once changePassword has answered 200, the user's stored list holds *)
(* no hash written by a refresh request that presented a token issued      *)
(* before the password change, whatever the interleaving of the steps of   *)
(* the refresh request with the password change.                           *)
C28_RevocationNotUndone ==
    mark.kind = "changePassword" =>
        \A r \in Requests :
            (/\ inflight[r].pc = "done" /\ inflight[r].status = 200
             /\ inflight[r].token.userId = mark.a
             /\ inflight[r].token.jti <= mark.b) =>
                ~verifyStoredRefreshToken(users, mark.a, inflight[r].rt)

(* C29: in every reachable state each transaction, each budget and each    *)
(* category that is not a default is owned by a user that exists in the    *)
(* store, also after a create request that carries an access token issued  *)
(* before its account was deleted.                                         *)
C29_OwnersExist ==
    /\ \A t \in transactions : users[t.userId].exists
    /\ \A b \in budgets : users[b.userId].exists
    /\ \A c \in categories : ~c.isDefault => users[c.userId].exists

(* C30: in every status overview answered, for a category that has a       *)
(* monthly and a yearly budget the yearly spent is at least the monthly    *)
(* spent, also when transactions of the category are created or deleted    *)
(* between the aggregates of the request.                                  *)
C30_YearlyAtLeastMonthly ==
    \A r \in Requests :
        (inflight[r].pc = "done" /\ inflight[r].status = 200) =>
            \A e1, e2 \in Range(inflight[r].doc.data) :
                (e1.category = e2.category /\ e1.period = "monthly" /\ e2.period = "yearly")
                   => e2.spent >= e1.spent

====
